---- MODULE Spec2Model ----
(***************************************************************************)
(* A model of the compiled helpers of psd-tools:                           *)
(*   - the PackBits run-length codec in its successive revisions,          *)
(*   - the delta filter of "zip with prediction" and the byte transpose,   *)
(*   - the blend modes.                                                    *)
(* Every function of the source is an operator that computes what the code *)
(* computes, loop by loop; the specifications below draw the inputs from   *)
(* bounded sets and apply the functions.                                   *)
(***************************************************************************)
EXTENDS Integers, Sequences, FiniteSets, TLC

VARIABLES
    pc,         \* which operation ran last
    raw,        \* PackBits: the uncompressed buffer handed to an encoder
    stream,     \* PackBits: the compressed stream handed to a decoder
    declared,   \* PackBits: the output size the caller declares
    dec,        \* PackBits: the outcome of the last decode call
    enc,        \* PackBits: the locals of an encoder between two iterations of its loop
    samples,    \* prediction: the sample array, which _delta_decode updates in place
    samplesIn,  \* prediction: the sample array as it was passed in
    planes,     \* prediction: the byte buffer handed to _restore_byte_order
    dims,       \* prediction: the arguments mod, w and h
    planesIn,   \* prediction: that buffer as it was passed in
    restored,   \* prediction: the outcome of the last call
    backdrop,   \* blending: the RGBA buffer imdata1
    source,     \* blending: the RGBA buffer imdata2
    res,        \* blending: the outcome of the last blend call
    randState,  \* blending: the state of the C library's rand()
    firstRes,   \* blending: the outcome of the first dissolve call
    budget,     \* blending: rand()/srand() calls other code may still make
    records,    \* layers: the flat list of layer records of the document
    tree,       \* layers: the children of the document, rebuilt from records
    saved,      \* layers: the flat list the tree was last flattened to
    kids,       \* layers: the child list of each container being edited
    lastCall    \* layers: the editing call made last, an append with what it was given

pbVars == <<raw, stream, declared, dec, enc>>

zipVars == <<samples, samplesIn, planes, planesIn, dims, restored>>

blendVars == <<backdrop, source, res, randState, firstRes, budget>>

layerVars == <<records, tree, saved, kids, lastCall>>

nonPbVars == <<zipVars, blendVars, layerVars>>

nonZipVars == <<pbVars, blendVars, layerVars>>

nonBlendVars == <<pbVars, zipVars, layerVars>>

nonLayerVars == <<pbVars, zipVars, blendVars>>

vars == <<pc, pbVars, zipVars, blendVars, layerVars>>

(***************************************************************************)
(* Bytes and buffers.  Buffers are sequences of bytes; the code indexes    *)
(* them from 0, At reads index k.                                          *)
(***************************************************************************)
Byte == 0..255

Min(a, b) == IF a <= b THEN a ELSE b

At(buf, k) == buf[k + 1]

\* the bytes buf[from .. from+n-1]
Slice(buf, from, n) == [k \in 1..n |-> buf[from + k]]

Zeros(n) == [k \in 1..n |-> 0]

\* std::fill_n(result.begin()+j, n, c)
fill_n(out, j, n, c) ==
    [k \in 1..Len(out) |-> IF k > j /\ k <= j + n THEN c ELSE out[k]]

\* std::copy_n(&data[i], n, result.begin()+j)
copy_n(data, i, n, out, j) ==
    [k \in 1..Len(out) |-> IF k > j /\ k <= j + n THEN data[i + (k - j)] ELSE out[k]]

\* the state of a decoder before its loop starts
DecStart(out) == [status |-> "run", i |-> 0, j |-> 0, out |-> out, oob |-> FALSE]

\* what a decode call hands back: a raised exception carries no bytes
Raise(st, exc) == [st EXCEPT !.status = exc]

Return(st) == [st EXCEPT !.status = "ok"]

(***************************************************************************)
(* decode, tolerant revision.  One iteration of its while loop, the loop,  *)
(* and the function.  i and j are the code's cursors into data and result. *)
(***************************************************************************)
\* decode_tolerant_step with a literal run that is not cut at the end of data
decode_tolerant_step_uncut(data, size, st) ==
    LET length == Len(data)
        hdr    == At(data, st.i)
        i      == st.i + 1
    IN  IF hdr > 128 THEN
            LET bit    == 256 - hdr
                actual == Min(1 + bit, size - st.j)
            IN  IF i >= length
                THEN [st EXCEPT !.i = i, !.status = "break"]
                ELSE [st EXCEPT !.out = fill_n(@, st.j, actual, At(data, i)),
                                !.j   = @ + actual,
                                !.i   = i + 1,
                                !.oob = @ \/ st.j + actual > Len(st.out)]
        ELSE IF hdr < 128 THEN
            LET bit       == hdr
                available == 1 + bit
                actual    == Min(available, size - st.j)
            IN  IF i >= length
                THEN [st EXCEPT !.i = i, !.status = "break"]
                ELSE [st EXCEPT !.out = copy_n(data \o Zeros(actual), i, actual, @, st.j),
                                !.j   = @ + actual,
                                !.i   = i + available,
                                !.oob = @ \/ st.j + actual > Len(st.out)
                                          \/ i + actual > length]
        ELSE [st EXCEPT !.i = i]

\* decode_tolerant_step with runs that are not clipped at the output boundary
decode_tolerant_step_unclipped(data, size, st) ==
    LET length == Len(data)
        hdr    == At(data, st.i)
        i      == st.i + 1
    IN  IF hdr > 128 THEN
            LET bit    == 256 - hdr
                actual == 1 + bit
            IN  IF i >= length
                THEN [st EXCEPT !.i = i, !.status = "break"]
                ELSE [st EXCEPT !.out = fill_n(@, st.j, actual, At(data, i)),
                                !.j   = @ + actual,
                                !.i   = i + 1,
                                !.oob = @ \/ st.j + actual > Len(st.out)]
        ELSE IF hdr < 128 THEN
            LET bit       == hdr
                available == Min(length - i, 1 + bit)
                actual    == available
            IN  IF i >= length
                THEN [st EXCEPT !.i = i, !.status = "break"]
                ELSE [st EXCEPT !.out = copy_n(data, i, actual, @, st.j),
                                !.j   = @ + actual,
                                !.i   = i + available,
                                !.oob = @ \/ st.j + actual > Len(st.out)
                                          \/ i + actual > length]
        ELSE [st EXCEPT !.i = i]

decode_tolerant_step(data, size, st) ==
    LET length == Len(data)
        hdr    == At(data, st.i)
        i      == st.i + 1
    IN  IF hdr > 128 THEN
            LET bit    == 256 - hdr
                actual == Min(1 + bit, size - st.j)
            IN  IF i >= length
                THEN [st EXCEPT !.i = i, !.status = "break"]
                ELSE [st EXCEPT !.out = fill_n(@, st.j, actual, At(data, i)),
                                !.j   = @ + actual,
                                !.i   = i + 1,
                                !.oob = @ \/ st.j + actual > Len(st.out)]
        ELSE IF hdr < 128 THEN
            LET bit       == hdr
                available == Min(length - i, 1 + bit)
                actual    == Min(available, size - st.j)
            IN  IF i >= length
                THEN [st EXCEPT !.i = i, !.status = "break"]
                ELSE [st EXCEPT !.out = copy_n(data, i, actual, @, st.j),
                                !.j   = @ + actual,
                                !.i   = i + available,
                                !.oob = @ \/ st.j + actual > Len(st.out)
                                          \/ i + actual > length]
        ELSE [st EXCEPT !.i = i]

RECURSIVE decode_tolerant_loop(_, _, _)
decode_tolerant_loop(data, size, st) ==
    IF st.status = "run" /\ st.i < Len(data) /\ st.j < size
    THEN decode_tolerant_loop(data, size, decode_tolerant_step(data, size, st))
    ELSE st

decode_tolerant(data, size) ==
    IF Len(data) = 1
    THEN Return(DecStart(Zeros(size)))
    ELSE Return(decode_tolerant_loop(data, size, DecStart(Zeros(size))))

\* decode_strict_step with the repeated byte taken from the header position
decode_strict_step_header(data, size, st) ==
    LET length == Len(data)
        hdr    == At(data, st.i)
        i      == st.i + 1
    IN  IF hdr > 128 THEN
            LET bit == 256 - hdr
            IN  IF st.j + 1 + bit > size
                THEN Raise([st EXCEPT !.i = i], "ValueError")
                ELSE IF i >= length
                THEN Raise([st EXCEPT !.i = i], "IndexError")
                ELSE [st EXCEPT !.out = fill_n(@, st.j, 1 + bit, hdr),
                                !.j   = @ + 1 + bit,
                                !.i   = i + 1]
        ELSE IF hdr < 128 THEN
            LET bit == hdr
            IN  IF i + 1 + bit > length \/ st.j + 1 + bit > size
                THEN Raise([st EXCEPT !.i = i], "ValueError")
                ELSE [st EXCEPT !.out = copy_n(data, i, 1 + bit, @, st.j),
                                !.j   = @ + 1 + bit,
                                !.i   = i + 1 + bit]
        ELSE [st EXCEPT !.i = i]

(***************************************************************************)
(* decode, strict revision on a pre-sized result (resize, fill_n, copy_n). *)
(* An index into the memoryview is bounds-checked (the module switches off *)
(* wraparound only), so data[i] with i = length raises IndexError.         *)
(***************************************************************************)
decode_strict_step(data, size, st) ==
    LET length == Len(data)
        hdr    == At(data, st.i)
        i      == st.i + 1
    IN  IF hdr > 128 THEN
            LET bit == 256 - hdr
            IN  IF st.j + 1 + bit > size
                THEN Raise([st EXCEPT !.i = i], "ValueError")
                ELSE IF i >= length
                THEN Raise([st EXCEPT !.i = i], "IndexError")
                ELSE [st EXCEPT !.out = fill_n(@, st.j, 1 + bit, At(data, i)),
                                !.j   = @ + 1 + bit,
                                !.i   = i + 1]
        ELSE IF hdr < 128 THEN
            LET bit == hdr
            IN  IF i + 1 + bit > length \/ st.j + 1 + bit > size
                THEN Raise([st EXCEPT !.i = i], "ValueError")
                ELSE [st EXCEPT !.out = copy_n(data, i, 1 + bit, @, st.j),
                                !.j   = @ + 1 + bit,
                                !.i   = i + 1 + bit]
        ELSE [st EXCEPT !.i = i]

RECURSIVE decode_strict_loop(_, _, _)
decode_strict_loop(data, size, st) ==
    IF st.status = "run" /\ st.i < Len(data)
    THEN decode_strict_loop(data, size, decode_strict_step(data, size, st))
    ELSE st

decode_strict(data, size) ==
    IF Len(data) = 1
    THEN IF At(data, 0) # 128
         THEN Raise(DecStart(<<>>), "ValueError")
         ELSE Return(DecStart(<<>>))
    ELSE LET st == decode_strict_loop(data, size, DecStart(Zeros(size)))
         IN  IF st.status # "run" THEN st
             ELSE IF size # 0 /\ st.j # size THEN Raise(st, "ValueError")
             ELSE Return(st)

(***************************************************************************)
(* decode, first strict revision: the result is reserved and appended to.  *)
(* The literal branch tests 1+bit against the whole input length, so       *)
(* result.append(&data[i], 1+bit) can read behind the end of data, an      *)
(* unchecked read of raw memory.  behind is the readable memory that       *)
(* follows the last byte of data, behind[m] being the m-th byte after it:  *)
(* each byte read there is read from its own place, and a read that goes   *)
(* on behind the last readable byte (the end of a mapped page) ends the    *)
(* process with SIGSEGV.  &data[i] itself is bounds-checked.               *)
(***************************************************************************)
decode_reserve_step(data, size, behind, st) ==
    LET length == Len(data)
        hdr    == At(data, st.i)
        i      == st.i + 1
    IN  IF hdr > 128 THEN
            LET bit == 256 - hdr
            IN  IF st.j + bit + 1 > size
                THEN Raise([st EXCEPT !.i = i], "ValueError")
                ELSE IF i >= length
                THEN Raise([st EXCEPT !.i = i], "IndexError")
                ELSE [st EXCEPT !.out = @ \o [k \in 1..(1 + bit) |-> At(data, i)],
                                !.j   = @ + 1 + bit,
                                !.i   = i + 1]
        ELSE IF hdr < 128 THEN
            LET bit == hdr
            IN  IF 1 + bit > length \/ st.j + bit + 1 > size
                THEN Raise([st EXCEPT !.i = i], "ValueError")
                ELSE IF i >= length
                THEN Raise([st EXCEPT !.i = i], "IndexError")
                ELSE IF i + 1 + bit > length + Len(behind)
                THEN Raise([st EXCEPT !.i = i, !.oob = TRUE], "SIGSEGV")
                ELSE [st EXCEPT !.out = @ \o [k \in 1..(1 + bit) |->
                                               IF i + k <= length
                                               THEN data[i + k]
                                               ELSE behind[i + k - length]],
                                !.j   = @ + 1 + bit,
                                !.i   = i + bit + 1,
                                !.oob = @ \/ i + 1 + bit > length]
        ELSE [st EXCEPT !.i = i]

RECURSIVE decode_reserve_loop(_, _, _, _)
decode_reserve_loop(data, size, behind, st) ==
    IF st.status = "run" /\ st.i < Len(data)
    THEN decode_reserve_loop(data, size, behind, decode_reserve_step(data, size, behind, st))
    ELSE st

decode_reserve(data, size, behind) ==
    IF Len(data) = 1
    THEN IF At(data, 0) # 128
         THEN Raise(DecStart(<<>>), "ValueError")
         ELSE Return(DecStart(<<>>))
    ELSE LET st == decode_reserve_loop(data, size, behind, DecStart(<<>>))
         IN  IF st.status # "run" THEN st
             ELSE IF size # 0 /\ st.j # size THEN Raise(st, "ValueError")
             ELSE Return(st)

\* how many bytes behind the end of data the call reads; the cursors do not
\* depend on what those bytes hold, and a read behind the end ends the loop
decode_reserve_overread(data, size) ==
    LET st == decode_reserve(data, size, Zeros(Len(data)))
    IN  IF st.oob THEN st.i - Len(data) ELSE 0

(***************************************************************************)
(* decode, the malloc/memcpy revision.  src and dst are the fields i and j *)
(* of the loop state.  The buffer comes from malloc and holds junk until   *)
(* it is written (malloc(0) is taken to return a pointer, as on the        *)
(* platforms the extension is built for).                                  *)
(***************************************************************************)
\* decode_sized_step with a repeat run one byte short
decode_sized_step_short(data, size, st) ==
    LET shape  == Len(data)
        hdr    == At(data, st.i)
        header == IF hdr > 127 THEN hdr - 256 ELSE hdr
        src    == st.i + 1
        dst    == st.j
    IN  IF 0 <= header /\ header <= 127 THEN
            LET length == header + 1
            IN  IF src + length <= shape /\ dst + length <= size
                THEN [st EXCEPT !.out = copy_n(data, src, length, @, dst),
                                !.i   = src + length,
                                !.j   = dst + length]
                ELSE Raise([st EXCEPT !.i = src], "ValueError")
        ELSE IF header = -128 THEN [st EXCEPT !.i = src]
        ELSE
            LET length == 0 - header
            IN  IF src + 1 <= shape /\ dst + length <= size
                THEN [st EXCEPT !.out = fill_n(@, dst, length, At(data, src)),
                                !.i   = src + 1,
                                !.j   = dst + length]
                ELSE Raise([st EXCEPT !.i = src], "ValueError")

decode_sized_step(data, size, st) ==
    LET shape  == Len(data)
        hdr    == At(data, st.i)
        header == IF hdr > 127 THEN hdr - 256 ELSE hdr
        src    == st.i + 1
        dst    == st.j
    IN  IF 0 <= header /\ header <= 127 THEN
            LET length == header + 1
            IN  IF src + length <= shape /\ dst + length <= size
                THEN [st EXCEPT !.out = copy_n(data, src, length, @, dst),
                                !.i   = src + length,
                                !.j   = dst + length]
                ELSE Raise([st EXCEPT !.i = src], "ValueError")
        ELSE IF header = -128 THEN [st EXCEPT !.i = src]
        ELSE
            LET length == 1 - header
            IN  IF src + 1 <= shape /\ dst + length <= size
                THEN [st EXCEPT !.out = fill_n(@, dst, length, At(data, src)),
                                !.i   = src + 1,
                                !.j   = dst + length]
                ELSE Raise([st EXCEPT !.i = src], "ValueError")

RECURSIVE decode_sized_loop(_, _, _)
decode_sized_loop(data, size, st) ==
    IF st.status = "run" /\ st.i < Len(data)
    THEN decode_sized_loop(data, size, decode_sized_step(data, size, st))
    ELSE st

decode_sized(data, size, junk) ==
    LET st == decode_sized_loop(data, size, DecStart([k \in 1..size |-> junk]))
    IN  IF st.status # "run" THEN st
        ELSE IF st.j < size THEN Raise(st, "ValueError")
        ELSE Return(st)

(***************************************************************************)
(* decode, the revision without a size: the result is a bytearray that is  *)
(* extended.  A slice of the memoryview is cut at the end of the data; an  *)
(* index is bounds-checked.                                                *)
(***************************************************************************)
decode_sizeless_step(data, st) ==
    LET length      == Len(data)
        hdr         == At(data, st.i)
        header_byte == IF hdr > 127 THEN hdr - 256 ELSE hdr
        pos         == st.i + 1
    IN  IF 0 <= header_byte /\ header_byte <= 127 THEN
            LET n == Min(header_byte + 1, IF pos < length THEN length - pos ELSE 0)
            IN  [st EXCEPT !.out = @ \o Slice(data, pos, n),
                           !.j   = @ + n,
                           !.i   = pos + header_byte + 1]
        ELSE IF header_byte = -128 THEN [st EXCEPT !.i = pos]
        ELSE IF pos >= length
             THEN Raise([st EXCEPT !.i = pos], "IndexError")
             ELSE [st EXCEPT !.out = @ \o [k \in 1..(1 - header_byte) |-> At(data, pos)],
                             !.j   = @ + (1 - header_byte),
                             !.i   = pos + 1]

RECURSIVE decode_sizeless_loop(_, _)
decode_sizeless_loop(data, st) ==
    IF st.status = "run" /\ st.i < Len(data)
    THEN decode_sizeless_loop(data, decode_sizeless_step(data, st))
    ELSE st

decode_sizeless(data) ==
    LET st == decode_sizeless_loop(data, DecStart(<<>>))
    IN  IF st.status # "run" THEN st ELSE Return(st)


(***************************************************************************)
(* encode, the current greedy revision.  i is the start of the record      *)
(* being built and j the scan cursor; the two inner while loops are the    *)
(* scans, encode_step is one iteration of the outer loop.                  *)
(***************************************************************************)
MAX_LEN == 127

\* the body of the inner loop of the repeat branch: TRUE when it breaks
encode_repeat_break(data, i, j) ==
    LET length == Len(data)
    IN  IF j - i >= MAX_LEN THEN TRUE
        ELSE IF j + 1 >= length \/ At(data, j) # At(data, j + 1) THEN TRUE
        ELSE FALSE

\* encode_repeat_scan with the cap tested one byte late
RECURSIVE encode_repeat_scan_late(_, _, _)
encode_repeat_scan_late(data, i, j) ==
    LET length == Len(data)
    IN  IF j < length
           /\ ~(j - i > MAX_LEN)
           /\ ~(j + 1 >= length \/ At(data, j) # At(data, j + 1))
        THEN encode_repeat_scan_late(data, i, j + 1)
        ELSE j

\* the inner loop of the repeat branch; the value is j when the loop ends:
\* the first position from j on that fails the loop test or breaks
encode_repeat_scan(data, i, j) ==
    CHOOSE e \in j..Len(data) :
        /\ e >= Len(data) \/ encode_repeat_break(data, i, e)
        /\ \A k \in j..(e - 1) : ~encode_repeat_break(data, i, k)

\* encode_literal_break with the margin of the first revision
encode_literal_break_margin4(data, i, j) ==
    LET length == Len(data)
    IN  IF j - i >= MAX_LEN THEN TRUE
        ELSE IF j + 1 < length /\ At(data, j) # At(data, j + 1) THEN FALSE
        ELSE IF ((j + 2 = length) \/ (MAX_LEN - (j - i) <= 4))
                /\ ~(j + 1 = length)
                /\ At(data, j) = At(data, j + 1) THEN TRUE
        ELSE IF j + 2 < length
                /\ At(data, j) = At(data, j + 1)
                /\ At(data, j + 1) = At(data, j + 2) THEN TRUE
        ELSE FALSE

\* encode_literal_break with the cap tested one byte late
encode_literal_break_late(data, i, j) ==
    LET length == Len(data)
    IN  IF j - i > MAX_LEN THEN TRUE
        ELSE IF j + 1 < length /\ At(data, j) # At(data, j + 1) THEN FALSE
        ELSE IF ((j + 2 = length) \/ (MAX_LEN - (j - i) <= 2))
                /\ ~(j + 1 = length)
                /\ At(data, j) = At(data, j + 1) THEN TRUE
        ELSE IF j + 2 < length
                /\ At(data, j) = At(data, j + 1)
                /\ At(data, j + 1) = At(data, j + 2) THEN TRUE
        ELSE FALSE

\* the body of the inner loop of the literal branch: TRUE when it breaks
encode_literal_break(data, i, j) ==
    LET length == Len(data)
    IN  IF j - i >= MAX_LEN THEN TRUE
        ELSE IF j + 1 < length /\ At(data, j) # At(data, j + 1) THEN FALSE
        ELSE IF ((j + 2 = length) \/ (MAX_LEN - (j - i) <= 2))
                /\ ~(j + 1 = length)
                /\ At(data, j) = At(data, j + 1) THEN TRUE
        ELSE IF j + 2 < length
                /\ At(data, j) = At(data, j + 1)
                /\ At(data, j + 1) = At(data, j + 2) THEN TRUE
        ELSE FALSE

\* the inner loop of the literal branch; the value is j when the loop ends:
\* the first position from j on that fails the loop test or breaks
encode_literal_scan(data, i, j) ==
    CHOOSE e \in j..Len(data) :
        /\ e >= Len(data) \/ encode_literal_break(data, i, e)
        /\ \A k \in j..(e - 1) : ~encode_literal_break(data, i, k)

\* push_back of an int stores its low eight bits
AsChar(n) == n % 256

\* encode_step with the repeat branch entered only when a third byte follows
encode_step_stuck(data, st) ==
    LET length == Len(data)
        i      == st.i
        j      == st.j
    IN  IF j + 2 < length /\ At(data, j) = At(data, j + 1)
        THEN LET je == encode_repeat_scan(data, i, j)
             IN  [i      |-> je + 1,
                  j      |-> je + 1,
                  result |-> st.result \o <<AsChar(-(je - i)), At(data, i)>>]
        ELSE LET je == encode_literal_scan(data, i, j)
             IN  [i      |-> je,
                  j      |-> je,
                  result |-> (st.result \o <<AsChar(je - i - 1)>>)
                                \o Slice(data, i, je - i)]

encode_step(data, st) ==
    LET length == Len(data)
        i      == st.i
        j      == st.j
    IN  IF j + 1 < length /\ At(data, j) = At(data, j + 1)
        THEN LET je == encode_repeat_scan(data, i, j)
             IN  [i      |-> je + 1,
                  j      |-> je + 1,
                  result |-> st.result \o <<AsChar(-(je - i)), At(data, i)>>]
        ELSE LET je == encode_literal_scan(data, i, j)
             IN  [i      |-> je,
                  j      |-> je,
                  result |-> (st.result \o <<AsChar(je - i - 1)>>)
                                \o Slice(data, i, je - i)]

RECURSIVE encode_loop(_, _)
encode_loop(data, st) ==
    IF st.i < Len(data)
    THEN encode_loop(data, encode_step(data, st))
    ELSE st

encode(data) ==
    IF Len(data) = 0 THEN data
    ELSE IF Len(data) = 1 THEN <<0, At(data, 0)>>
    ELSE encode_loop(data, [i |-> 0, j |-> 0, result |-> <<>>]).result


(***************************************************************************)
(* The inputs of the PackBits specifications.                              *)
(***************************************************************************)
MaxSmall   == 7     \* longest buffer over two byte values, all of them drawn
MaxChunks  == 3     \* most chunks in a long buffer
MaxStream  == 5     \* longest arbitrary stream
MaxSize    == 4     \* largest size declared for an arbitrary stream
MaxRecords == 3     \* most records in a well-formed stream

\* all sequences over S of length 0..n
RECURSIVE SeqsUpTo(_, _)
SeqsUpTo(S, n) ==
    IF n = 0 THEN {<<>>}
    ELSE LET shorter == SeqsUpTo(S, n - 1)
         IN  shorter \cup {Append(s, x) : s \in {t \in shorter : Len(t) = n - 1}, x \in S}

RECURSIVE Flatten(_)
Flatten(ss) == IF ss = <<>> THEN <<>> ELSE Head(ss) \o Flatten(Tail(ss))

\* a chunk of a long buffer: n equal bytes, or n bytes without two equal neighbours
Chunks ==
    { <<"rep", n>> : n \in {2, 3, 128, 129} } \cup
    { <<"alt", n>> : n \in {1, 124, 125, 126, 127, 128} }

\* the p-th chunk of a buffer; chunks next to each other share no byte value
ChunkBytes(c, p) ==
    IF c[1] = "rep" THEN [k \in 1..c[2] |-> 10 * p]
                    ELSE [k \in 1..c[2] |-> 10 * p + 1 + (k % 2)]

\* the buffer made of the chunks cs
ChunkBuffer(cs) == Flatten([p \in 1..Len(cs) |-> ChunkBytes(cs[p], p)])

\* the bytes arbitrary streams are made of: literal headers, the no-op,
\* repeat headers; each of them also serves as a data byte
StreamBytes == {0, 1, 2, 128, 254, 255}

\* a record of a well-formed stream, by its header; the data bytes are
\* numbered so that no two of a record are equal
Headers == {0, 1, 126, 127, 128, 129, 130, 254, 255}

RecordBytes(v, p) ==
    IF v <= 127 THEN <<v>> \o [k \in 1..(v + 1) |-> (16 * p + k) % 256]
    ELSE IF v = 128 THEN <<v>>
    ELSE <<v, 16 * p + 7>>

RECURSIVE Sum(_)
Sum(ns) == IF ns = <<>> THEN 0 ELSE Head(ns) + Sum(Tail(ns))

RunLength(v) == IF v <= 127 THEN v + 1 ELSE IF v = 128 THEN 0 ELSE 257 - v

\* the well-formed stream with the headers vs, and what its runs total
RecordStream(vs) == Flatten([p \in 1..Len(vs) |-> RecordBytes(vs[p], p)])

RecordTotal(vs) == Sum([p \in 1..Len(vs) |-> RunLength(vs[p])])

\* what an undefined read or an unwritten malloc buffer may hold
JunkBytes == {0, 170}

\* no encoder is running
NoEnc == [fn |-> "none", status |-> "none"]

NoDec == [fn |-> "none", status |-> "none", i |-> 0, j |-> 0, out |-> <<>>, oob |-> FALSE]

Outcome(fn, st) ==
    [fn |-> fn, status |-> st.status, i |-> st.i, j |-> st.j, out |-> st.out, oob |-> st.oob]

(***************************************************************************)
(* Actions: one call of an encoder or of a decoder.                        *)
(***************************************************************************)
Encode ==
    /\ pc = "raw"
    /\ stream' = encode(raw)
    /\ pc' = "encoded"
    /\ UNCHANGED <<raw, declared, dec, enc, nonPbVars>>

DecodeTolerant ==
    /\ pc \in {"stream", "encoded"}
    /\ dec' = Outcome("tolerant", decode_tolerant(stream, declared))
    /\ pc' = "decoded"
    /\ UNCHANGED <<raw, stream, declared, enc, nonPbVars>>

DecodeStrict ==
    /\ pc \in {"stream", "encoded"}
    /\ dec' = Outcome("strict", decode_strict(stream, declared))
    /\ pc' = "decoded"
    /\ UNCHANGED <<raw, stream, declared, enc, nonPbVars>>

(***************************************************************************)
(* The memory behind the stream is not the program's: how much of it can   *)
(* be read and what it holds is not defined.  The call is made with every  *)
(* number of readable bytes up to the number it reads there, and a byte    *)
(* read there is kept as MemoryByte(m), which stands for whatever value in *)
(* 0..255 the memory holds m places behind the end of the stream.          *)
(***************************************************************************)
MemoryByte(m) == [behind |-> m]

DecodeReserve ==
    /\ pc = "stream"
    /\ \E readable \in 0..decode_reserve_overread(stream, declared) :
          dec' = Outcome("reserve",
                         decode_reserve(stream, declared, [m \in 1..readable |-> MemoryByte(m)]))
    /\ pc' = "decoded"
    /\ UNCHANGED <<raw, stream, declared, enc, nonPbVars>>

DecodeSized ==
    /\ pc \in {"stream", "encoded"}
    /\ \E junk \in JunkBytes :
          dec' = Outcome("sized", decode_sized(stream, declared, junk))
    /\ pc' = "decoded"
    /\ UNCHANGED <<raw, stream, declared, enc, nonPbVars>>

DecodeSizeless ==
    /\ pc \in {"stream", "encoded"}
    /\ dec' = Outcome("sizeless", decode_sizeless(stream))
    /\ pc' = "decoded"
    /\ UNCHANGED <<raw, stream, declared, enc, nonPbVars>>

\* the variables of the other functions while PackBits runs
NoCall == [fn |-> "none", status |-> "none", out |-> <<>>]

LayerIdle ==
    /\ records = <<>>
    /\ tree = <<>>
    /\ saved = <<>>
    /\ kids = <<>>
    /\ lastCall = <<>>

BlendIdle ==
    /\ backdrop = <<>>
    /\ source = <<>>
    /\ res = NoCall
    /\ randState = <<>>
    /\ firstRes = NoCall
    /\ budget = 0

ZipIdle ==
    /\ samples = <<>>
    /\ samplesIn = <<>>
    /\ planes = <<>>
    /\ planesIn = <<>>
    /\ dims = [mod |-> 256, w |-> 0, h |-> 0]
    /\ restored = NoCall

\* the buffer of the comment in encode: A B C D D E F G G G G G G H I J J K
CommentExample == <<65, 66, 67, 68, 68, 69, 70, 71, 71, 71, 71, 71, 71, 72, 73, 74, 74, 75>>

\* round trip: a buffer is encoded and the stream decoded with its length
InitRoundTrip ==
    /\ pc = "raw"
    /\ \/ raw \in SeqsUpTo({0, 1}, MaxSmall)
       \/ \E cs \in SeqsUpTo(Chunks, MaxChunks) : raw = ChunkBuffer(cs)
       \/ raw = CommentExample
    /\ stream = <<>>
    /\ declared = Len(raw)
    /\ dec = NoDec
    /\ enc = NoEnc
    /\ ZipIdle
    /\ BlendIdle
    /\ LayerIdle

NextRoundTrip == Encode \/ DecodeTolerant

SpecRoundTrip == InitRoundTrip /\ [][NextRoundTrip]_vars

\* decoding: a stream and a declared size are handed to one of the decoders
InitDecode ==
    /\ pc = "stream"
    /\ raw = <<>>
    /\ \/ /\ stream \in SeqsUpTo(StreamBytes, MaxStream)
          /\ declared \in 0..MaxSize
       \/ \E vs \in SeqsUpTo(Headers, MaxRecords), d \in {-1, 0, 1} :
             /\ RecordTotal(vs) + d >= 0
             /\ stream = RecordStream(vs)
             /\ declared = RecordTotal(vs) + d
    /\ dec = NoDec
    /\ enc = NoEnc
    /\ ZipIdle
    /\ BlendIdle
    /\ LayerIdle

NextDecode ==
    \/ DecodeTolerant
    \/ DecodeStrict
    \/ DecodeReserve
    \/ DecodeSized
    \/ DecodeSizeless

SpecDecode == InitDecode /\ [][NextDecode]_vars


(***************************************************************************)
(* The record format as the specification words it, independent of any     *)
(* decoder: the reading of a stream record by record.                      *)
(***************************************************************************)
\* every header of the stream from pos on has its data bytes
RECURSIVE WellFormedFrom(_, _)
WellFormedFrom(s, pos) ==
    IF pos >= Len(s) THEN TRUE
    ELSE LET v == At(s, pos)
         IN  IF v <= 127 THEN pos + 1 + (v + 1) <= Len(s) /\ WellFormedFrom(s, pos + v + 2)
             ELSE IF v = 128 THEN WellFormedFrom(s, pos + 1)
             ELSE pos + 2 <= Len(s) /\ WellFormedFrom(s, pos + 2)

WellFormed(s) == WellFormedFrom(s, 0)

\* the runs of the stream from pos on, one after the other; a literal run
\* cut short by the end of the stream gives the bytes that are there, a
\* header without a data byte gives nothing
RECURSIVE ExpandFrom(_, _)
ExpandFrom(s, pos) ==
    IF pos >= Len(s) THEN <<>>
    ELSE LET v == At(s, pos)
         IN  IF v <= 127
             THEN IF pos + 1 + (v + 1) <= Len(s)
                  THEN Slice(s, pos + 1, v + 1) \o ExpandFrom(s, pos + v + 2)
                  ELSE Slice(s, pos + 1, Len(s) - (pos + 1))
             ELSE IF v = 128 THEN ExpandFrom(s, pos + 1)
             ELSE IF pos + 2 <= Len(s)
                  THEN [k \in 1..(257 - v) |-> At(s, pos + 1)] \o ExpandFrom(s, pos + 2)
                  ELSE <<>>

Expand(s) == ExpandFrom(s, 0)

\* the first n bytes of bytes, zeros where bytes is shorter
ClipPad(bytes, n) == [k \in 1..n |-> IF k <= Len(bytes) THEN bytes[k] ELSE 0]

\* some run, read in order from pos with done bytes produced, passes the
\* declared size or lacks data bytes its header announces
RECURSIVE BadRunFrom(_, _, _, _)
BadRunFrom(s, n, pos, done) ==
    IF pos >= Len(s) THEN FALSE
    ELSE LET v == At(s, pos)
         IN  IF v <= 127
             THEN \/ pos + 1 + (v + 1) > Len(s)
                  \/ done + v + 1 > n
                  \/ BadRunFrom(s, n, pos + v + 2, done + v + 1)
             ELSE IF v = 128 THEN BadRunFrom(s, n, pos + 1, done)
             ELSE \/ pos + 2 > Len(s)
                  \/ done + (257 - v) > n
                  \/ BadRunFrom(s, n, pos + 2, done + (257 - v))

BadRun(s, n) == BadRunFrom(s, n, 0, 0)

Raised(d) == d.status \in {"ValueError", "IndexError"}

(***************************************************************************)
(* C1: the greedy encoder followed by the tolerant decoder, called with    *)
(* the length of the buffer, gives the buffer back.                        *)
(***************************************************************************)
C1_RoundTrip ==
    (pc = "decoded" /\ dec.fn = "tolerant") =>
        dec.status = "ok" /\ dec.out = raw

\* a round trip of 129 or more bytes whose stream holds a literal and a repeat record
C1_Witness ==
    /\ pc = "decoded"
    /\ Len(raw) >= 129
    /\ dec.out = raw
    /\ \E k \in 1..Len(stream) : stream[k] = 126
    /\ \E k \in 1..Len(stream) : stream[k] = 129

(***************************************************************************)
(* C2: the tolerant decoder never raises and returns exactly size bytes:   *)
(* the runs in order, clipped at size, a truncated literal giving the      *)
(* bytes present, a header without data ending the decoding, and zeros in  *)
(* every position no run reached.                                          *)
(***************************************************************************)
C2_TolerantTotal ==
    (pc = "decoded" /\ dec.fn = "tolerant") =>
        /\ dec.status = "ok"
        /\ Len(dec.out) = declared
        /\ ~dec.oob
        /\ dec.out = ClipPad(Expand(stream), declared)
        /\ \A k \in 1..declared : k > dec.j => dec.out[k] = 0

\* a run was clipped at the boundary and, in another state, zeros were padded
C2_Witness ==
    /\ pc = "decoded" /\ dec.fn = "tolerant"
    /\ ~WellFormed(stream)
    /\ 0 < dec.j /\ dec.j < declared
    /\ Len(dec.out) = declared

(***************************************************************************)
(* C3: on a well-formed stream whose runs total the declared size, every   *)
(* decoder returns the runs one after the other: v+1 literal bytes for a   *)
(* header v in 0..127, nothing for 128, 257-v copies of the next byte for  *)
(* v in 129..255.  The decoder without a size does so for every            *)
(* well-formed stream.                                                     *)
(***************************************************************************)
C3_HeaderSemantics ==
    (/\ pc = "decoded"
     /\ WellFormed(stream)
     /\ (dec.fn # "sizeless" => Len(Expand(stream)) = declared)) =>
        dec.status = "ok" /\ dec.out = Expand(stream)

\* a stream with a 128-byte literal, a no-op and a repeat was decoded
C3_Witness ==
    /\ pc = "decoded" /\ dec.fn = "sized"
    /\ WellFormed(stream)
    /\ Len(Expand(stream)) = declared
    /\ \E a, b, c \in 1..Len(stream) :
          a < b /\ b < c /\ stream[a] = 127 /\ stream[b] = 128 /\ stream[c] = 130
    /\ declared = 128 + 127
    /\ dec.out = Expand(stream)

(***************************************************************************)
(* C4: when the strict decoder (pre-sized result) returns, the bytes it    *)
(* returns are exactly size many.                                          *)
(***************************************************************************)
C4_StrictLength ==
    (pc = "decoded" /\ dec.fn = "strict" /\ dec.status = "ok") =>
        Len(dec.out) = declared

(***************************************************************************)
(* C5: in each strict revision a run that passes the declared size, or     *)
(* that lacks data bytes its header announces, makes decode raise, and no  *)
(* byte outside the two buffers has been read or written.                  *)
(***************************************************************************)
C5_StrictRaises ==
    (/\ pc = "decoded"
     /\ dec.fn \in {"strict", "reserve", "sized"}
     /\ BadRun(stream, declared)) =>
        Raised(dec) /\ ~dec.oob /\ dec.j <= declared


(***************************************************************************)
(* Zip with prediction.  _delta_decode_bytes and _delta_decode_words are   *)
(* the same two loops on unsigned 8-bit and 16-bit samples; the sum wraps  *)
(* at the sample width.  delta_row is the inner loop from x on, delta_rows *)
(* the outer loop from y on.                                               *)
(***************************************************************************)
RECURSIVE delta_row(_, _, _, _, _)
delta_row(arr, offset, x, w, width) ==
    IF x < w - 1
    THEN LET pos == offset + x
         IN  delta_row([arr EXCEPT ![pos + 2] = (@ + arr[pos + 1]) % width],
                       offset, x + 1, w, width)
    ELSE arr

\* delta_rows with the sum running on from one row into the next
delta_rows_carry(arr, y, w, h, width) == delta_row(arr, 0, 0, w * h, width)

RECURSIVE delta_rows(_, _, _, _, _)
delta_rows(arr, y, w, h, width) ==
    IF y < h
    THEN delta_rows(delta_row(arr, y * w, 0, w, width), y + 1, w, h, width)
    ELSE arr

_delta_decode_bytes(arr, w, h) == delta_rows(arr, 0, w, h, 256)

_delta_decode_words(arr, w, h) == delta_rows(arr, 0, w, h, 65536)

\* array.byteswap() on an array of 16-bit items
byteswap(arr) == [k \in 1..Len(arr) |-> (arr[k] % 256) * 256 + arr[k] \div 256]

_delta_decode(arr, mod, w, h) ==
    IF mod = 256
    THEN [fn |-> "_delta_decode", status |-> "ok", out |-> _delta_decode_bytes(arr, w, h)]
    ELSE IF mod = 256 * 256
    THEN [fn |-> "_delta_decode", status |-> "ok",
          out |-> byteswap(_delta_decode_words(arr, w, h))]
    ELSE [fn |-> "_delta_decode", status |-> "NotImplementedError", out |-> arr]

(***************************************************************************)
(* _restore_byte_order: dst views bytes_copy, a slice and so a new array,  *)
(* src views the buffer passed in; i is the write cursor.  The loop state  *)
(* holds both buffers.  restore_byte is the body of the loop over b,       *)
(* restore_pixel that loop, restore_row the loop over x from x on,         *)
(* restore_rows the loop over y from y on.                                 *)
(***************************************************************************)
restore_byte(st, row_start, w, x, b) ==
    [st EXCEPT !.dst[st.i + b + 1] = st.src[row_start + w * b + x + 1]]

restore_pixel(st, row_start, w, x) ==
    LET b0 == restore_byte(st, row_start, w, x, 0)
        b1 == restore_byte(b0, row_start, w, x, 1)
        b2 == restore_byte(b1, row_start, w, x, 2)
        b3 == restore_byte(b2, row_start, w, x, 3)
    IN  [b3 EXCEPT !.i = @ + 4]

RECURSIVE restore_row(_, _, _, _)
restore_row(st, row_start, w, x) ==
    IF x < w
    THEN restore_row(restore_pixel(st, row_start, w, x), row_start, w, x + 1)
    ELSE st

RECURSIVE restore_rows(_, _, _, _)
restore_rows(st, y, w, h) ==
    IF y < h
    THEN restore_rows(restore_row(st, y * w * 4, w, 0), y + 1, w, h)
    ELSE st

\* The value holds the bytes returned and the caller's buffer after the
\* call.  The last line calls bytes_copy.tostring(): has says whether the
\* array passed in has that method (array.array had it as an alias of
\* tobytes up to Python 3.8 and lost it in Python 3.9); without it the call
\* ends in AttributeError after the loops and returns nothing.
_restore_byte_order(bytes_array, w, h, has) ==
    LET bytes_copy == bytes_array
        st == restore_rows([src |-> bytes_array, dst |-> bytes_copy, i |-> 0], 0, w, h)
    IN  IF has
        THEN [fn |-> "_restore_byte_order", status |-> "ok", out |-> st.dst, src |-> st.src]
        ELSE [fn |-> "_restore_byte_order", status |-> "AttributeError", out |-> <<>>,
              src |-> st.src]

(***************************************************************************)
(* The inputs of the prediction specification and its two actions.         *)
(***************************************************************************)
MaxW == 3       \* widest row, in samples (delta) or pixels (transpose)
MaxH == 2       \* most rows

Moduli == {256, 256 * 256, 256 * 256 * 256}

SampleValues(mod) == IF mod = 256 THEN {1, 255} ELSE {255, 65535}

\* all arrays of n samples
Arrays(n, mod) == [1..n -> SampleValues(mod)]

\* a buffer of n bytes, no two of which are equal when m is odd and n <= 256
Pattern(n, c, m) == [k \in 1..n |-> (c + m * (k - 1)) % 256]

DeltaDecode ==
    /\ pc = "array"
    /\ LET r == _delta_decode(samples, dims.mod, dims.w, dims.h)
       IN  /\ samples' = r.out
           /\ restored' = [fn |-> r.fn, status |-> r.status, out |-> r.out]
    /\ pc' = "summed"
    /\ UNCHANGED <<samplesIn, planes, planesIn, dims>>
    /\ UNCHANGED nonZipVars

RestoreByteOrder ==
    /\ pc = "array"
    /\ \E has \in BOOLEAN :
          LET r == _restore_byte_order(planes, dims.w, dims.h, has)
          IN  /\ planes' = r.src
              /\ restored' = [fn |-> r.fn, status |-> r.status, out |-> r.out]
    /\ pc' = "restored"
    /\ UNCHANGED <<samples, samplesIn, planesIn, dims>>
    /\ UNCHANGED nonZipVars

PbIdle ==
    /\ raw = <<>>
    /\ stream = <<>>
    /\ declared = 0
    /\ dec = NoDec
    /\ enc = NoEnc

InitZip ==
    /\ pc = "array"
    /\ \E mod \in Moduli, w \in 1..MaxW, h \in 1..MaxH :
          /\ dims = [mod |-> mod, w |-> w, h |-> h]
          /\ samples \in Arrays(w * h, mod)
          /\ \E c \in {0, 250} : planes = Pattern(4 * w * h, c, 1)
    /\ samplesIn = samples
    /\ planesIn = planes
    /\ restored = NoCall
    /\ PbIdle
    /\ BlendIdle
    /\ LayerIdle

NextZip == DeltaDecode \/ RestoreByteOrder

SpecZip == InitZip /\ [][NextZip]_vars

\* the sum of in[from..to], both 1-based and inclusive
RECURSIVE RangeSum(_, _, _)
RangeSum(arr, from, to) ==
    IF from > to THEN 0 ELSE arr[from] + RangeSum(arr, from + 1, to)

SwapBytes(word) == (word % 256) * 256 + word \div 256

\* how many positions of buf hold v
Count(buf, v) == Cardinality({k \in 1..Len(buf) : buf[k] = v})

(***************************************************************************)
(* C6: _delta_decode replaces each row by its running sum modulo the       *)
(* sample width (256, or 65536 followed by a swap of the two bytes of      *)
(* every word); the sum starts anew in every row, so the summation leaves  *)
(* the first sample of a row, and a row of one sample, as they were.       *)
(***************************************************************************)
C6_DeltaRunningSum ==
    (pc = "summed" /\ dims.mod \in {256, 65536}) =>
        /\ restored.status = "ok"
        /\ Len(samples) = Len(samplesIn)
        /\ \A y \in 0..(dims.h - 1) : \A x \in 0..(dims.w - 1) :
              LET total == RangeSum(samplesIn, y * dims.w + 1, y * dims.w + x + 1) % dims.mod
                  first == samplesIn[y * dims.w + 1]
              IN  /\ samples[y * dims.w + x + 1] =
                        IF dims.mod = 256 THEN total ELSE SwapBytes(total)
                  /\ x = 0 => samples[y * dims.w + 1] =
                        IF dims.mod = 256 THEN first ELSE SwapBytes(first)

\* two rows of three 16-bit samples were summed, one sum wrapped, and the
\* second row does not start where the first ended
C6_Witness ==
    /\ pc = "summed" /\ dims.mod = 65536 /\ dims.w = 3 /\ dims.h = 2
    /\ samplesIn = <<65535, 255, 255, 255, 65535, 255>>
    /\ samples = <<65535, 65024, 64769, 65280, 65024, 64769>>

(***************************************************************************)
(* C7: _restore_byte_order puts byte b of pixel x of row y, which the      *)
(* input holds in plane b of the row, at 4*(y*w + x) + b; the output is a  *)
(* permutation of the input and the input buffer is as it was.             *)
(* The loops compute this transposition into the copy; the call returns it *)
(* only where the closing bytes_copy.tostring() exists, and ends in        *)
(* AttributeError otherwise.                                               *)
(***************************************************************************)
C7_Transpose ==
    pc = "restored" =>
        /\ restored.status = "ok"
        /\ Len(restored.out) = Len(planesIn)
        /\ \A y \in 0..(dims.h - 1) : \A x \in 0..(dims.w - 1) : \A b \in 0..3 :
              restored.out[4 * (y * dims.w + x) + b + 1] =
                  planesIn[y * 4 * dims.w + b * dims.w + x + 1]
        /\ \A k \in 1..Len(planesIn) :
              Count(restored.out, planesIn[k]) = Count(planesIn, planesIn[k])
        /\ planes = planesIn

(***************************************************************************)
(* Blend modes.  imdata1 is the backdrop and imdata2 the source; every     *)
(* function walks the two buffers pixel by pixel.  For each function       *)
(* f_channel is the formula of one colour channel (a from the source, b    *)
(* from the backdrop, stored into an 8-bit result) and f_pixel the body of *)
(* the pixel loop of function f.  C integer arithmetic: UINT8              *)
(* operands are promoted to 32-bit int, >> is an arithmetic shift, /       *)
(* truncates towards zero (cdivision), a store into a UINT8 keeps the low  *)
(* 8 bits and a store into a short the low 16 bits as a signed value.      *)
(***************************************************************************)
U8(x) == x % 256

U16(x) == x % 65536

S16(x) == ((x + 32768) % 65536) - 32768

Shr(x, n) == x \div (2 ^ n)

\* C division of ints, divisor not zero
CDiv(n, d) ==
    IF (n >= 0) = (d > 0)
    THEN (IF n >= 0 THEN n ELSE -n) \div (IF d > 0 THEN d ELSE -d)
    ELSE -((IF n >= 0 THEN n ELSE -n) \div (IF d > 0 THEN d ELSE -d))

\* <UINT8>~x
Not8(x) == U8(-x - 1)

\* (x * m) >> s for x, m >= 0 and s >= 16, without forming the product
MulShr(x, m, s) ==
    Shr(x * (m \div 65536) + Shr(x * (m % 65536), 16), s - 16)

\* pixel n (from 0) of an RGBA buffer
Pix(buf, n) == <<buf[4 * n + 1], buf[4 * n + 2], buf[4 * n + 3], buf[4 * n + 4]>>

\* the result of a pixel loop from px, the pixel each pass of the loop
\* stored; a pass gives <<>> where the body divides by zero, which ends
\* the process (SIGFPE)
Blend(px) ==
    IF \E n \in DOMAIN px : px[n] = <<>>
    THEN [status |-> "SIGFPE", out |-> <<>>]
    ELSE [status |-> "done",
          out |-> [k \in 1..(4 * Cardinality(DOMAIN px)) |-> px[(k - 1) \div 4][((k - 1) % 4) + 1]]]

darken_channel(a, b) == IF a < b THEN a ELSE b

darken_pixel(p1, p2) ==
    IF p2[4] = 0 THEN <<p1[1], p1[2], p1[3], p1[4]>>
    ELSE IF p1[4] = 0 THEN <<p2[1], p2[2], p2[3], p2[4]>>
    ELSE <<darken_channel(p2[1], p1[1]), darken_channel(p2[2], p1[2]),
           darken_channel(p2[3], p1[3]), p2[4]>>

\* the truncating variant named in the header comment of the module
multiply_channel_floor(a, b) == U8(Shr((a * b + 1) * 257, 16))

multiply_channel(a, b) == U8(Shr((a * b + 128) * 257, 16))

multiply_pixel(p1, p2) ==
    IF p2[4] = 0 THEN <<p1[1], p1[2], p1[3], p1[4]>>
    ELSE IF p1[4] = 0 THEN <<p2[1], p2[2], p2[3], p2[4]>>
    ELSE <<multiply_channel(p2[1], p1[1]), multiply_channel(p2[2], p1[2]),
           multiply_channel(p2[3], p1[3]), p2[4]>>

color_burn_channel(a, b) ==
    IF b = 255 THEN 255
    ELSE IF a = 255 THEN b
    ELSE IF Not8(b) >= a THEN 0
    ELSE LET nb == Not8(b)
         IN  U8(-CDiv(nb * 256 - nb + Shr(a, 1), a) - 1)

color_burn_pixel(p1, p2) ==
    IF p2[4] = 0 THEN <<p1[1], p1[2], p1[3], p1[4]>>
    ELSE IF p1[4] = 0 THEN <<p2[1], p2[2], p2[3], p2[4]>>
    ELSE <<color_burn_channel(p2[1], p1[1]), color_burn_channel(p2[2], p1[2]),
           color_burn_channel(p2[3], p1[3]), p2[4]>>

linear_burn_channel(a, b) ==
    LET x == U16(a + b)
    IN  IF x > 255 THEN U8(x - 255) ELSE 0

linear_burn_pixel(p1, p2) ==
    IF p2[4] = 0 THEN <<p1[1], p1[2], p1[3], p1[4]>>
    ELSE IF p1[4] = 0 THEN <<p2[1], p2[2], p2[3], p2[4]>>
    ELSE <<linear_burn_channel(p2[1], p1[1]), linear_burn_channel(p2[2], p1[2]),
           linear_burn_channel(p2[3], p1[3]), p2[4]>>

lighten_channel(a, b) == IF a > b THEN a ELSE b

lighten_pixel(p1, p2) ==
    IF p2[4] = 0 THEN <<p1[1], p1[2], p1[3], p1[4]>>
    ELSE IF p1[4] = 0 THEN <<p2[1], p2[2], p2[3], p2[4]>>
    ELSE <<lighten_channel(p2[1], p1[1]), lighten_channel(p2[2], p1[2]),
           lighten_channel(p2[3], p1[3]), p2[4]>>

\* screen with the product truncated instead of rounded
screen_channel_floor(a, b) == U8(a + b - Shr((a * b + 1) * 257, 16))

screen_channel(a, b) == U8(a + b - Shr((a * b + 128) * 257, 16))

screen_pixel(p1, p2) ==
    IF p2[4] = 0 THEN <<p1[1], p1[2], p1[3], p1[4]>>
    ELSE IF p1[4] = 0 THEN <<p2[1], p2[2], p2[3], p2[4]>>
    ELSE <<screen_channel(p2[1], p1[1]), screen_channel(p2[2], p1[2]),
           screen_channel(p2[3], p1[3]), p2[4]>>

color_dodge_channel(a, b) ==
    IF b = 0 THEN 0
    ELSE IF a = 0 THEN b
    ELSE IF b >= Not8(a) THEN 255
    ELSE LET na == Not8(a)
         IN  U8(CDiv(b * 256 - b + Shr(na, 1), na))

color_dodge_pixel(p1, p2) ==
    IF p2[4] = 0 THEN <<p1[1], p1[2], p1[3], p1[4]>>
    ELSE IF p1[4] = 0 THEN <<p2[1], p2[2], p2[3], p2[4]>>
    ELSE <<color_dodge_channel(p2[1], p1[1]), color_dodge_channel(p2[2], p1[2]),
           color_dodge_channel(p2[3], p1[3]), p2[4]>>

linear_dodge_channel(a, b) ==
    LET x == U16(a + b)
    IN  IF x < 255 THEN U8(x) ELSE 255

linear_dodge_pixel(p1, p2) ==
    IF p2[4] = 0 THEN <<p1[1], p1[2], p1[3], p1[4]>>
    ELSE IF p1[4] = 0 THEN <<p2[1], p2[2], p2[3], p2[4]>>
    ELSE <<linear_dodge_channel(p2[1], p1[1]), linear_dodge_channel(p2[2], p1[2]),
           linear_dodge_channel(p2[3], p1[3]), p2[4]>>

\* (n * 0x10101) >> 23 with the product held at INT_MAX instead of wrapping
mul_0x10101_shr23_saturated(n) ==
    LET q == MulShr(n, 65793, 23)
    IN  IF q >= 256 THEN 255 ELSE q

\* (n * 0x10101) >> 23 in 32-bit two's-complement int arithmetic: products
\* of 2^31 and more wrap to negative values, which the shift sign-extends
mul_0x10101_shr23(n) ==
    LET q == MulShr(n, 65793, 23)
    IN  IF q >= 256 THEN q - 512 ELSE q

\* The product n * 0x10101 overflows a 32-bit int from n = 32640 on, which
\* C leaves undefined.  Builds were seen to differ in whether x, declared
\* UINT16, holds the low 16 bits of the shifted value or the value itself.
OverflowBuilds == {"truncated", "kept"}

\* the int overlay assigns to pres[k], before the store keeps its low 8 bits
overlay_before_store(a, b, build) ==
    LET w == mul_0x10101_shr23(a * b + 64)
        x == IF build = "truncated" THEN U16(w) ELSE w
    IN  IF b < 128 THEN x ELSE (a + a) + (b + b) - x - 255

overlay_channel(a, b) ==
    LET x == U16(mul_0x10101_shr23(a * b + 64))
    IN  IF b < 128 THEN U8(x) ELSE U8((a + a) + (b + b) - x - 255)

\* the pixel body without the test of the backdrop alpha
overlay_pixel_unguarded(p1, p2) ==
    IF p2[4] = 0 THEN <<p1[1], p1[2], p1[3], p1[4]>>
    ELSE <<overlay_channel(p2[1], p1[1]), overlay_channel(p2[2], p1[2]),
           overlay_channel(p2[3], p1[3]), p2[4]>>

overlay_pixel(p1, p2) ==
    IF p2[4] = 0 THEN <<p1[1], p1[2], p1[3], p1[4]>>
    ELSE IF p1[4] = 0 THEN <<p2[1], p2[2], p2[3], p2[4]>>
    ELSE <<overlay_channel(p2[1], p1[1]), overlay_channel(p2[2], p1[2]),
           overlay_channel(p2[3], p1[3]), p2[4]>>

\* <UINT8>(sqrt(n) + 0.5) before the cast, n > 0: the nearest integer
round_sqrt(n) == CHOOSE r \in 0..255 : r * r - r < n /\ n <= r * r + r

soft_light_channel(a, b) ==
    IF a < 128
    THEN LET x == (255 - a - a) * b * (255 - b) + 32513
         IN  U8(b - Shr(MulShr(515, x, 16) + x, 16))
    ELSE LET x  == (((b * 16) - 3060) * b + 260100) * b + 32513
             Db == IF b < 64
                   THEN U8(Shr(Shr(x * 193, 15) + (x * 128) + x, 23))
                   ELSE U8(round_sqrt(b * 255))
         IN  U8(b + Shr(((a + a - 255) * (Db - b) + 128) * 257, 16))

soft_light_pixel(p1, p2) ==
    IF p2[4] = 0 THEN <<p1[1], p1[2], p1[3], p1[4]>>
    ELSE IF p1[4] = 0 THEN <<p2[1], p2[2], p2[3], p2[4]>>
    ELSE <<soft_light_channel(p2[1], p1[1]), soft_light_channel(p2[2], p1[2]),
           soft_light_channel(p2[3], p1[3]), p2[4]>>

hard_light_channel(a, b) ==
    LET x == U16(mul_0x10101_shr23(a * b + 64))
    IN  IF a < 128 THEN U8(x) ELSE U8((a + a) + (b + b) - x - 255)

hard_light_pixel(p1, p2) ==
    IF p2[4] = 0 THEN <<p1[1], p1[2], p1[3], p1[4]>>
    ELSE IF p1[4] = 0 THEN <<p2[1], p2[2], p2[3], p2[4]>>
    ELSE <<hard_light_channel(p2[1], p1[1]), hard_light_channel(p2[2], p1[2]),
           hard_light_channel(p2[3], p1[3]), p2[4]>>

\* vivid_light testing the source against the inverted backdrop before
\* the source is doubled
vivid_light_channel_undoubled(a, b) ==
    IF a < 128
    THEN IF b = 255 THEN 255
         ELSE IF Not8(b) >= a THEN 0
         ELSE LET nb == Not8(b)
                  a2 == U8(a + a)
              IN  U8(-CDiv(nb * 256 - nb + Shr(a2, 1), a2) - 1)
    ELSE IF b = 0 THEN 0
         ELSE IF b >= U8((-a - 1) + (-a - 1)) THEN 255
         ELSE LET a2 == U8((-a - 1) + (-a - 1))
              IN  U8(CDiv(b * 256 - b + Shr(a2, 1), a2))

vivid_light_channel(a, b) ==
    IF a < 128
    THEN IF b = 255 THEN 255
         ELSE IF Not8(b) >= a + a THEN 0
         ELSE LET nb == Not8(b)
                  a2 == U8(a + a)
              IN  U8(-CDiv(nb * 256 - nb + Shr(a2, 1), a2) - 1)
    ELSE IF b = 0 THEN 0
         ELSE IF b >= U8((-a - 1) + (-a - 1)) THEN 255
         ELSE LET a2 == U8((-a - 1) + (-a - 1))
              IN  U8(CDiv(b * 256 - b + Shr(a2, 1), a2))

vivid_light_pixel(p1, p2) ==
    IF p2[4] = 0 THEN <<p1[1], p1[2], p1[3], p1[4]>>
    ELSE IF p1[4] = 0 THEN <<p2[1], p2[2], p2[3], p2[4]>>
    ELSE <<vivid_light_channel(p2[1], p1[1]), vivid_light_channel(p2[2], p1[2]),
           vivid_light_channel(p2[3], p1[3]), p2[4]>>

linear_light_channel(a, b) ==
    LET x == S16(a + a + b - 255)
    IN  IF a < 128
        THEN (IF x >= 0 THEN U8(x) ELSE 0)
        ELSE (IF x <= 255 THEN U8(x) ELSE 255)

linear_light_pixel(p1, p2) ==
    IF p2[4] = 0 THEN <<p1[1], p1[2], p1[3], p1[4]>>
    ELSE IF p1[4] = 0 THEN <<p2[1], p2[2], p2[3], p2[4]>>
    ELSE <<linear_light_channel(p2[1], p1[1]), linear_light_channel(p2[2], p1[2]),
           linear_light_channel(p2[3], p1[3]), p2[4]>>

pin_light_channel(a, b) ==
    IF a < 128
    THEN LET a2 == U8(a + a)
         IN  IF a2 <= b THEN a2 ELSE b
    ELSE LET a2 == U8(a + a - 255)
         IN  IF a2 >= b THEN a2 ELSE b

pin_light_pixel(p1, p2) ==
    IF p2[4] = 0 THEN <<p1[1], p1[2], p1[3], p1[4]>>
    ELSE IF p1[4] = 0 THEN <<p2[1], p2[2], p2[3], p2[4]>>
    ELSE <<pin_light_channel(p2[1], p1[1]), pin_light_channel(p2[2], p1[2]),
           pin_light_channel(p2[3], p1[3]), p2[4]>>

hard_mix_channel(a, b) ==
    IF a < 128
    THEN (IF a + b < 255 THEN 0 ELSE 255)
    ELSE (IF a + b <= 255 THEN 0 ELSE 255)

hard_mix_pixel(p1, p2) ==
    IF p2[4] = 0 THEN <<p1[1], p1[2], p1[3], p1[4]>>
    ELSE IF p1[4] = 0 THEN <<p2[1], p2[2], p2[3], p2[4]>>
    ELSE <<hard_mix_channel(p2[1], p1[1]), hard_mix_channel(p2[2], p1[2]),
           hard_mix_channel(p2[3], p1[3]), p2[4]>>

difference_channel(a, b) == IF b > a THEN U8(b - a) ELSE U8(a - b)

difference_pixel(p1, p2) ==
    IF p2[4] = 0 THEN <<p1[1], p1[2], p1[3], p1[4]>>
    ELSE IF p1[4] = 0 THEN <<p2[1], p2[2], p2[3], p2[4]>>
    ELSE <<difference_channel(p2[1], p1[1]), difference_channel(p2[2], p1[2]),
           difference_channel(p2[3], p1[3]), p2[4]>>

\* exclusion as a + b less twice the rounded product a*b/255
exclusion_channel_twice(a, b) == U8(a + b - 2 * Shr((a * b + 128) * 257, 16))

exclusion_channel(a, b) == U8(a + b - mul_0x10101_shr23(a * b + 64))

exclusion_pixel(p1, p2) ==
    IF p2[4] = 0 THEN <<p1[1], p1[2], p1[3], p1[4]>>
    ELSE IF p1[4] = 0 THEN <<p2[1], p2[2], p2[3], p2[4]>>
    ELSE <<exclusion_channel(p2[1], p1[1]), exclusion_channel(p2[2], p1[2]),
           exclusion_channel(p2[3], p1[3]), p2[4]>>

subtract_channel(a, b) == IF b > a THEN U8(b - a) ELSE 0

subtract_pixel(p1, p2) ==
    IF p2[4] = 0 THEN <<p1[1], p1[2], p1[3], p1[4]>>
    ELSE IF p1[4] = 0 THEN <<p2[1], p2[2], p2[3], p2[4]>>
    ELSE <<subtract_channel(p2[1], p1[1]), subtract_channel(p2[2], p1[2]),
           subtract_channel(p2[3], p1[3]), p2[4]>>

\* divide with the quotient truncated instead of rounded
divide_channel_trunc(a, b) ==
    IF b = 0 THEN 0
    ELSE IF a = 255 THEN b
    ELSE IF b >= a THEN 255
    ELSE U8(CDiv(b * 256 - b, a))

divide_channel(a, b) ==
    IF b = 0 THEN 0
    ELSE IF a = 255 THEN b
    ELSE IF b >= a THEN 255
    ELSE U8(CDiv(b * 256 - b + Shr(a, 1), a))

divide_pixel(p1, p2) ==
    IF p2[4] = 0 THEN <<p1[1], p1[2], p1[3], p1[4]>>
    ELSE IF p1[4] = 0 THEN <<p2[1], p2[2], p2[3], p2[4]>>
    ELSE <<divide_channel(p2[1], p1[1]), divide_channel(p2[2], p1[2]),
           divide_channel(p2[3], p1[3]), p2[4]>>

\* ---- component group ----
\* a Color: three shorts; ok is FALSE once a division by zero has been made
ColorOf(p) == [r |-> p[1], g |-> p[2], b |-> p[3], ok |-> TRUE]

min(pcolor) ==
    IF pcolor.r <= pcolor.g
    THEN (IF pcolor.r <= pcolor.b THEN pcolor.r ELSE pcolor.b)
    ELSE (IF pcolor.g <= pcolor.b THEN pcolor.g ELSE pcolor.b)

max(pcolor) ==
    IF pcolor.r >= pcolor.g
    THEN (IF pcolor.r >= pcolor.b THEN pcolor.r ELSE pcolor.b)
    ELSE (IF pcolor.g >= pcolor.b THEN pcolor.g ELSE pcolor.b)

\* the fields ppmin, ppmid and ppmax are made to point at
set_mmm(pcolor) ==
    IF pcolor.r <= pcolor.g
    THEN IF pcolor.r <= pcolor.b
         THEN IF pcolor.g <= pcolor.b
              THEN [pmin |-> "r", pmid |-> "g", pmax |-> "b"]
              ELSE [pmin |-> "r", pmid |-> "b", pmax |-> "g"]
         ELSE [pmin |-> "b", pmid |-> "r", pmax |-> "g"]
    ELSE IF pcolor.g <= pcolor.b
         THEN IF pcolor.r <= pcolor.b
              THEN [pmin |-> "g", pmid |-> "r", pmax |-> "b"]
              ELSE [pmin |-> "g", pmid |-> "b", pmax |-> "r"]
         ELSE [pmin |-> "b", pmid |-> "g", pmax |-> "r"]

get_lum(pcolor) ==
    U8(Shr((30 * pcolor.r + 59 * pcolor.g + 11 * pcolor.b + 51) * 41943, 22))

\* one component of clip_color: v is the component, full the value stored
\* when the component less lum equals the divisor, scale the multiplier
clip_component(v, lum, divisor, full, scale) ==
    LET d == S16(v - lum)
    IN  IF d = divisor THEN [v |-> full, ok |-> TRUE]
        ELSE IF divisor = 0 THEN [v |-> d, ok |-> FALSE]
        ELSE [v |-> S16(lum + CDiv(d * scale + Shr(divisor, 1), divisor)), ok |-> TRUE]

clip_components(pcolor, lum, divisor, full, scale) ==
    LET cr == clip_component(pcolor.r, lum, divisor, full, scale)
        cg == clip_component(pcolor.g, lum, divisor, full, scale)
        cb == clip_component(pcolor.b, lum, divisor, full, scale)
    IN  [r |-> cr.v, g |-> cg.v, b |-> cb.v,
         ok |-> pcolor.ok /\ cr.ok /\ cg.ok /\ cb.ok]

\* clip_color without the branch for components above 255
clip_color_low(pcolor) ==
    LET lum == get_lum(pcolor)
        n   == min(pcolor)
    IN  IF n < 0
        THEN IF lum = 0
             THEN [pcolor EXCEPT !.r = 0, !.g = 0, !.b = 0]
             ELSE clip_components(pcolor, lum, U8(lum - n), lum + lum, lum)
        ELSE pcolor

clip_color(pcolor) ==
    LET lum == get_lum(pcolor)
        n   == min(pcolor)
        x   == max(pcolor)
    IN  IF n < 0
        THEN IF lum = 0
             THEN [pcolor EXCEPT !.r = 0, !.g = 0, !.b = 0]
             ELSE clip_components(pcolor, lum, U8(lum - n), lum + lum, lum)
        ELSE IF x > 255
        THEN IF lum = 255
             THEN [pcolor EXCEPT !.r = 255, !.g = 255, !.b = 255]
             ELSE clip_components(pcolor, lum, U8(x - lum), 255, 255 - lum)
        ELSE pcolor

set_lum(pcolor, new_lum) ==
    LET d == S16(new_lum - get_lum(pcolor))
    IN  clip_color([pcolor EXCEPT !.r = S16(@ + d), !.g = S16(@ + d), !.b = S16(@ + d)])

get_sat(pcolor) == U8(max(pcolor) - min(pcolor))

set_sat(pcolor, new_sat) ==
    LET m        == set_mmm(pcolor)
        divisor  == U8(pcolor[m.pmax] - pcolor[m.pmin])
        dividend == U8(pcolor[m.pmid] - pcolor[m.pmin])
    IN  IF divisor = 0 \/ new_sat = 0
        THEN [pcolor EXCEPT ![m.pmid] = 0, ![m.pmax] = 0, ![m.pmin] = 0]
        ELSE IF dividend = divisor
        THEN [pcolor EXCEPT ![m.pmid] = new_sat, ![m.pmax] = new_sat, ![m.pmin] = 0]
        ELSE [pcolor EXCEPT
                 ![m.pmid] = S16(CDiv(dividend * new_sat + Shr(divisor, 1), divisor)),
                 ![m.pmax] = new_sat,
                 ![m.pmin] = 0]

darker_color_pixel(p1, p2) ==
    IF p2[4] = 0 THEN <<p1[1], p1[2], p1[3], p1[4]>>
    ELSE IF p1[4] = 0 THEN <<p2[1], p2[2], p2[3], p2[4]>>
    ELSE LET B == ColorOf(p1)
             A == ColorOf(p2)
             X == IF get_lum(A) < get_lum(B) THEN A ELSE B
         IN  IF X.ok THEN <<U8(X.r), U8(X.g), U8(X.b), p2[4]>> ELSE <<>>

lighter_color_pixel(p1, p2) ==
    IF p2[4] = 0 THEN <<p1[1], p1[2], p1[3], p1[4]>>
    ELSE IF p1[4] = 0 THEN <<p2[1], p2[2], p2[3], p2[4]>>
    ELSE LET B == ColorOf(p1)
             A == ColorOf(p2)
             X == IF get_lum(A) > get_lum(B) THEN A ELSE B
         IN  IF X.ok THEN <<U8(X.r), U8(X.g), U8(X.b), p2[4]>> ELSE <<>>

hue_pixel(p1, p2) ==
    IF p2[4] = 0 THEN <<p1[1], p1[2], p1[3], p1[4]>>
    ELSE IF p1[4] = 0 THEN <<p2[1], p2[2], p2[3], p2[4]>>
    ELSE LET B == ColorOf(p1)
             A == ColorOf(p2)
             X == set_lum(set_sat(A, get_sat(B)), get_lum(B))
         IN  IF X.ok THEN <<U8(X.r), U8(X.g), U8(X.b), p2[4]>> ELSE <<>>

\* set_lum(set_sat(&B, get_sat(&A)), get_lum(&B)): C leaves the order in
\* which the two arguments of set_lum are evaluated to the compiler, and
\* set_sat writes the Color get_lum reads; order names the one taken
ArgOrders == {"left_first", "right_first"}

saturation_pixel(p1, p2, order) ==
    IF p2[4] = 0 THEN <<p1[1], p1[2], p1[3], p1[4]>>
    ELSE IF p1[4] = 0 THEN <<p2[1], p2[2], p2[3], p2[4]>>
    ELSE LET B == ColorOf(p1)
             A == ColorOf(p2)
             S == set_sat(B, get_sat(A))
             X == set_lum(S, IF order = "left_first" THEN get_lum(S) ELSE get_lum(B))
         IN  IF X.ok THEN <<U8(X.r), U8(X.g), U8(X.b), p2[4]>> ELSE <<>>

color_pixel(p1, p2) ==
    IF p2[4] = 0 THEN <<p1[1], p1[2], p1[3], p1[4]>>
    ELSE IF p1[4] = 0 THEN <<p2[1], p2[2], p2[3], p2[4]>>
    ELSE LET B == ColorOf(p1)
             A == ColorOf(p2)
             X == set_lum(A, get_lum(B))
         IN  IF X.ok THEN <<U8(X.r), U8(X.g), U8(X.b), p2[4]>> ELSE <<>>

luminosity_pixel(p1, p2) ==
    IF p2[4] = 0 THEN <<p1[1], p1[2], p1[3], p1[4]>>
    ELSE IF p1[4] = 0 THEN <<p2[1], p2[2], p2[3], p2[4]>>
    ELSE LET B == ColorOf(p1)
             A == ColorOf(p2)
             X == set_lum(B, get_lum(A))
         IN  IF X.ok THEN <<U8(X.r), U8(X.g), U8(X.b), p2[4]>> ELSE <<>>

\* ---- normal group ----
(***************************************************************************)
(* srand and rand of the C library the extension is linked with (the GNU   *)
(* one: an additive feedback generator over 31 words of 32 bits, seeded    *)
(* by a linear congruential generator, the first 310 outputs discarded).   *)
(* The state is one per process; f and r are the positions of the taps.    *)
(***************************************************************************)
RAND_DEG == 31

RAND_SEP == 3

\* a word of 32 bits as its two halves
Word(w) == <<w \div 65536, w % 65536>>

RECURSIVE srand_words(_, _)
srand_words(words, word) ==
    IF Len(words) = RAND_DEG THEN words
    ELSE LET hi   == word \div 127773
             lo   == word % 127773
             next == 16807 * lo - 2836 * hi
             w    == IF next < 0 THEN next + 2147483647 ELSE next
         IN  srand_words(Append(words, Word(w)), w)

rand(st) ==
    LET lo   == st.w[st.f + 1][2] + st.w[st.r + 1][2]
        hi   == st.w[st.f + 1][1] + st.w[st.r + 1][1] + (lo \div 65536)
        vlo  == lo % 65536
        vhi  == hi % 65536
        f    == st.f + 1
        r    == st.r + 1
    IN  [value |-> vhi * 32768 + (vlo \div 2),
         state |-> [w |-> [st.w EXCEPT ![st.f + 1] = <<vhi, vlo>>],
                    f |-> IF f >= RAND_DEG THEN 0 ELSE f,
                    r |-> IF f >= RAND_DEG THEN r
                          ELSE IF r >= RAND_DEG THEN 0 ELSE r]]

\* the state after n calls of rand()
RECURSIVE rand_discard(_, _)
rand_discard(st, n) ==
    IF n = 0 \/ st.f >= RAND_DEG THEN st
    ELSE IF n >= 10
    THEN LET s1 == rand(st).state
             s2 == rand(s1).state
             s3 == rand(s2).state
             s4 == rand(s3).state
             s5 == rand(s4).state
             s6 == rand(s5).state
             s7 == rand(s6).state
             s8 == rand(s7).state
             s9 == rand(s8).state
         IN  rand_discard(rand(s9).state, n - 10)
    ELSE rand_discard(rand(st).state, n - 1)

srand(seed) ==
    LET first == IF seed = 0 THEN 1 ELSE seed
    IN  rand_discard([w |-> srand_words(<<Word(first)>>, first),
                      f |-> RAND_SEP,
                      r |-> 0],
                     10 * RAND_DEG)

\* dissolve_pixel comparing the alpha with rand() % 256
dissolve_pixel_wide(p1, p2, draw) ==
    IF p2[4] < (draw % 256)
    THEN <<p1[1], p1[2], p1[3], p1[4]>>
    ELSE <<p2[1], p2[2], p2[3], 255>>

\* the body of the pixel loop of dissolve, draw being the value of rand()
dissolve_pixel(p1, p2, draw) ==
    IF p2[4] < (draw % 255) + 1
    THEN <<p1[1], p1[2], p1[3], p1[4]>>
    ELSE <<p2[1], p2[2], p2[3], 255>>

\* one iteration of the pixel loop at offset i: one call of rand() on the
\* generator as it stands, and the pixel that draw decides
dissolve_step(imdata1, imdata2, i, st, out) ==
    LET d == rand(st)
    IN  [out  |-> out \o dissolve_pixel(Pix(imdata1, i \div 4), Pix(imdata2, i \div 4), d.value),
         rand |-> d.state]

RECURSIVE dissolve_loop(_, _, _, _, _)
dissolve_loop(imdata1, imdata2, i, st, out) ==
    IF i >= Len(imdata1) THEN [status |-> "done", out |-> out, rand |-> st]
    ELSE LET s == dissolve_step(imdata1, imdata2, i, st, out)
         IN  dissolve_loop(imdata1, imdata2, i + 4, s.rand, s.out)

\* the generator as srand(314159265) leaves it
DissolveSeed == srand(314159265)

\* a call during which nothing else uses the generator.  st is the state of
\* the generator at the call; the result carries the state the call leaves
\* behind
dissolve(imdata1, imdata2, st) ==
    dissolve_loop(imdata1, imdata2, 0, DissolveSeed, <<>>)

(***************************************************************************)
(* The blend functions as operations on a pair of RGBA buffers of the same *)
(* whole number of pixels, as the compositing code passes them.            *)
(***************************************************************************)
MaxPixels == 2

MaxForeign == 2

\* length / 4, and the pixels the loop visits
NumPixels == Len(backdrop) \div 4

Pixels == 0..(NumPixels - 1)

\* the outcome of a call: the bytes returned, or the process ended
Called(fn, r) == [fn |-> fn, status |-> r.status, out |-> r.out]

BlendCall(fn, r) ==
    /\ pc = "pixels"
    /\ res' = Called(fn, r)
    /\ pc' = "blended"
    /\ UNCHANGED <<backdrop, source, randState, firstRes, budget, nonBlendVars>>

Darken == BlendCall("darken", Blend([n \in Pixels |-> darken_pixel(Pix(backdrop, n), Pix(source, n))]))

Multiply == BlendCall("multiply", Blend([n \in Pixels |-> multiply_pixel(Pix(backdrop, n), Pix(source, n))]))

ColorBurn == BlendCall("color_burn", Blend([n \in Pixels |-> color_burn_pixel(Pix(backdrop, n), Pix(source, n))]))

LinearBurn == BlendCall("linear_burn", Blend([n \in Pixels |-> linear_burn_pixel(Pix(backdrop, n), Pix(source, n))]))

DarkerColor == BlendCall("darker_color", Blend([n \in Pixels |-> darker_color_pixel(Pix(backdrop, n), Pix(source, n))]))

Lighten == BlendCall("lighten", Blend([n \in Pixels |-> lighten_pixel(Pix(backdrop, n), Pix(source, n))]))

Screen == BlendCall("screen", Blend([n \in Pixels |-> screen_pixel(Pix(backdrop, n), Pix(source, n))]))

ColorDodge == BlendCall("color_dodge", Blend([n \in Pixels |-> color_dodge_pixel(Pix(backdrop, n), Pix(source, n))]))

LinearDodge == BlendCall("linear_dodge", Blend([n \in Pixels |-> linear_dodge_pixel(Pix(backdrop, n), Pix(source, n))]))

LighterColor == BlendCall("lighter_color", Blend([n \in Pixels |-> lighter_color_pixel(Pix(backdrop, n), Pix(source, n))]))

Overlay == BlendCall("overlay", Blend([n \in Pixels |-> overlay_pixel(Pix(backdrop, n), Pix(source, n))]))

SoftLight == BlendCall("soft_light", Blend([n \in Pixels |-> soft_light_pixel(Pix(backdrop, n), Pix(source, n))]))

HardLight == BlendCall("hard_light", Blend([n \in Pixels |-> hard_light_pixel(Pix(backdrop, n), Pix(source, n))]))

VividLight == BlendCall("vivid_light", Blend([n \in Pixels |-> vivid_light_pixel(Pix(backdrop, n), Pix(source, n))]))

LinearLight == BlendCall("linear_light", Blend([n \in Pixels |-> linear_light_pixel(Pix(backdrop, n), Pix(source, n))]))

PinLight == BlendCall("pin_light", Blend([n \in Pixels |-> pin_light_pixel(Pix(backdrop, n), Pix(source, n))]))

HardMix == BlendCall("hard_mix", Blend([n \in Pixels |-> hard_mix_pixel(Pix(backdrop, n), Pix(source, n))]))

Difference == BlendCall("difference", Blend([n \in Pixels |-> difference_pixel(Pix(backdrop, n), Pix(source, n))]))

Exclusion == BlendCall("exclusion", Blend([n \in Pixels |-> exclusion_pixel(Pix(backdrop, n), Pix(source, n))]))

Subtract == BlendCall("subtract", Blend([n \in Pixels |-> subtract_pixel(Pix(backdrop, n), Pix(source, n))]))

Divide == BlendCall("divide", Blend([n \in Pixels |-> divide_pixel(Pix(backdrop, n), Pix(source, n))]))

Hue == BlendCall("hue", Blend([n \in Pixels |-> hue_pixel(Pix(backdrop, n), Pix(source, n))]))

Saturation ==
    \E order \in ArgOrders :
        BlendCall("saturation",
                  Blend([n \in Pixels |-> saturation_pixel(Pix(backdrop, n), Pix(source, n), order)]))

Color == BlendCall("color", Blend([n \in Pixels |-> color_pixel(Pix(backdrop, n), Pix(source, n))]))

Luminosity == BlendCall("luminosity", Blend([n \in Pixels |-> luminosity_pixel(Pix(backdrop, n), Pix(source, n))]))

(***************************************************************************)
(* A call of dissolve, one use of the generator at a time: the seeding,    *)
(* then one draw per pixel.  res holds the bytes written so far, the       *)
(* offset i of the loop is their number.  A call is "redrawing" when the   *)
(* generator was used by other code since an earlier call returned.  The   *)
(* repository starts no thread and has no other caller of srand or rand,   *)
(* and dissolve holds the interpreter lock from entry to return; the       *)
(* generator is the C library's, though, one per process and locked for a  *)
(* single srand or rand only, so a native thread of the embedding process  *)
(* that runs without the interpreter lock can use it while a call runs.    *)
(* res.alone says that no such use fell into the call.                     *)
(***************************************************************************)
Idle == {"fresh", "once", "perturbed", "twice"}

Running == {"drawing", "redrawing"}

\* DissolveEnter without the call of srand
DissolveEnterUnseeded ==
    /\ pc \in Idle
    /\ res' = [fn |-> "dissolve", status |-> "run", out |-> <<>>, alone |-> TRUE]
    /\ pc' = IF pc \in {"perturbed", "twice"} THEN "redrawing" ELSE "drawing"
    /\ UNCHANGED <<backdrop, source, randState, firstRes, budget, nonBlendVars>>

\* the call up to the loop: the generator is seeded
DissolveEnter ==
    /\ pc \in Idle
    /\ randState' = DissolveSeed
    /\ res' = [fn |-> "dissolve", status |-> "run", out |-> <<>>, alone |-> TRUE]
    /\ pc' = IF pc \in {"perturbed", "twice"} THEN "redrawing" ELSE "drawing"
    /\ UNCHANGED <<backdrop, source, firstRes, budget, nonBlendVars>>

\* one iteration of the pixel loop
DissolveIterate ==
    /\ pc \in Running
    /\ Len(res.out) < Len(backdrop)
    /\ LET s == dissolve_step(backdrop, source, Len(res.out), randState, res.out)
       IN  /\ res' = [res EXCEPT !.out = s.out]
           /\ randState' = s.rand
    /\ UNCHANGED <<pc, backdrop, source, firstRes, budget, nonBlendVars>>

\* the loop is over and the bytes are returned; the bytes of the first
\* call that ran alone are remembered for comparison
DissolveLeave ==
    /\ pc \in Running
    /\ Len(res.out) >= Len(backdrop)
    /\ res' = [res EXCEPT !.status = "done"]
    /\ firstRes' = IF firstRes.fn = "none" /\ res.alone
                   THEN [res EXCEPT !.status = "done"]
                   ELSE firstRes
    /\ pc' = IF pc = "drawing" THEN "once" ELSE "twice"
    /\ UNCHANGED <<backdrop, source, randState, budget, nonBlendVars>>

Perturbed == IF pc = "fresh" THEN "fresh" ELSE "perturbed"

(***************************************************************************)
(* The draws made before or between the calls of dissolve: code outside    *)
(* the repository that shares the generator of the process and runs while  *)
(* no call of dissolve does.                                               *)
(***************************************************************************)
\* other code of the process draws from the generator
RandDraw ==
    /\ pc \in Idle
    /\ budget > 0
    /\ randState' = rand(randState).state
    /\ budget' = budget - 1
    /\ pc' = Perturbed
    /\ UNCHANGED <<backdrop, source, res, firstRes, nonBlendVars>>

Seeds == {1, 2}

\* the generator as srand leaves it, for every seed other code uses
Seeded == [seed \in Seeds |-> srand(seed)]

\* other code of the process seeds the generator
Srand ==
    /\ pc \in Idle
    /\ budget > 0
    /\ \E seed \in Seeds : randState' = Seeded[seed]
    /\ budget' = budget - 1
    /\ pc' = Perturbed
    /\ UNCHANGED <<backdrop, source, res, firstRes, nonBlendVars>>

(***************************************************************************)
(* A native thread of the embedding process uses the generator while a     *)
(* call of dissolve runs: after the seeding, between two draws, or after   *)
(* the last draw and before the return.  The call is no longer alone.      *)
(***************************************************************************)
ThreadRand ==
    /\ pc \in Running
    /\ budget > 0
    /\ randState' = rand(randState).state
    /\ res' = [res EXCEPT !.alone = FALSE]
    /\ budget' = budget - 1
    /\ UNCHANGED <<pc, backdrop, source, firstRes, nonBlendVars>>

ThreadSrand ==
    /\ pc \in Running
    /\ budget > 0
    /\ \E seed \in Seeds : randState' = Seeded[seed]
    /\ res' = [res EXCEPT !.alone = FALSE]
    /\ budget' = budget - 1
    /\ UNCHANGED <<pc, backdrop, source, firstRes, nonBlendVars>>

BackdropPixels ==
    {<<200, 30, 90, 0>>, <<200, 30, 90, 255>>, <<15, 240, 128, 1>>, <<15, 240, 128, 0>>}

SourcePixels ==
    {<<60, 180, 250, 0>>, <<60, 180, 250, 255>>, <<130, 129, 7, 128>>, <<130, 129, 7, 0>>}

InitBlend ==
    /\ pc = "pixels"
    /\ \E n \in 0..MaxPixels :
           \E ps \in [1..n -> BackdropPixels \X SourcePixels] :
               /\ backdrop = Flatten([k \in 1..n |-> ps[k][1]])
               /\ source = Flatten([k \in 1..n |-> ps[k][2]])
    /\ res = NoCall
    /\ randState = <<>>
    /\ firstRes = NoCall
    /\ budget = 0
    /\ PbIdle
    /\ ZipIdle
    /\ LayerIdle

NextBlend ==
    \/ Darken
    \/ Multiply
    \/ ColorBurn
    \/ LinearBurn
    \/ DarkerColor
    \/ Lighten
    \/ Screen
    \/ ColorDodge
    \/ LinearDodge
    \/ LighterColor
    \/ Overlay
    \/ SoftLight
    \/ HardLight
    \/ VividLight
    \/ LinearLight
    \/ PinLight
    \/ HardMix
    \/ Difference
    \/ Exclusion
    \/ Subtract
    \/ Divide
    \/ Hue
    \/ Saturation
    \/ Color
    \/ Luminosity

SpecBlend == InitBlend /\ [][NextBlend]_vars

DissolveAlphas == {0, 11, 12, 100, 255}

\* a process starts with the generator as srand(1) leaves it
InitDissolve ==
    /\ pc = "fresh"
    /\ \E n \in 0..MaxPixels :
           \E alphas \in [1..n -> DissolveAlphas] :
               /\ backdrop = Flatten([k \in 1..n |-> <<10, 20, 30, 40>>])
               /\ source = Flatten([k \in 1..n |-> <<200, 150, 100, alphas[k]>>])
    /\ res = NoCall
    /\ randState = srand(1)
    /\ firstRes = NoCall
    /\ budget = MaxForeign
    /\ PbIdle
    /\ ZipIdle
    /\ LayerIdle

NextDissolve ==
    \/ DissolveEnter
    \/ DissolveIterate
    \/ DissolveLeave
    \/ RandDraw
    \/ Srand
    \/ ThreadRand
    \/ ThreadSrand

SpecDissolve == InitDissolve /\ [][NextDissolve]_vars

\* one pixel with every pair of channel values, both alphas non-zero
InitChannel ==
    /\ pc = "pixels"
    /\ \E a \in Byte, b \in Byte :
           /\ backdrop = <<b, b, 255 - b, 255>>
           /\ source = <<a, 255 - a, a, 128>>
    /\ res = NoCall
    /\ randState = <<>>
    /\ firstRes = NoCall
    /\ budget = 0
    /\ PbIdle
    /\ ZipIdle
    /\ LayerIdle

NextChannel ==
    \/ Multiply
    \/ Screen
    \/ Divide
    \/ Exclusion
    \/ Overlay
    \/ HardLight
    \/ VividLight

SpecChannel == InitChannel /\ [][NextChannel]_vars

(***************************************************************************)
(* C8: in every blend function other than dissolve, a pixel whose source   *)
(* alpha is 0 comes out as the backdrop pixel in all four bytes, and       *)
(* otherwise a pixel whose backdrop alpha is 0 comes out as the source     *)
(* pixel in all four bytes.                                                *)
(***************************************************************************)
C8_ShortCircuit ==
    (pc = "blended" /\ res.status = "done") =>
        /\ Len(res.out) = Len(backdrop)
        /\ \A n \in 0..(NumPixels - 1) :
               /\ Pix(source, n)[4] = 0 => Pix(res.out, n) = Pix(backdrop, n)
               /\ (Pix(source, n)[4] # 0 /\ Pix(backdrop, n)[4] = 0) =>
                      Pix(res.out, n) = Pix(source, n)

\* overlay returned for two pixels, one with a transparent source over a
\* visible backdrop and one with a visible source over a transparent backdrop
C8_Witness ==
    /\ pc = "blended" /\ res.fn = "overlay" /\ res.status = "done"
    /\ NumPixels = 2
    /\ \E m, n \in 0..1 :
           /\ Pix(source, m)[4] = 0 /\ Pix(backdrop, m)[4] # 0
           /\ Pix(res.out, m) = Pix(backdrop, m)
           /\ Pix(source, n)[4] # 0 /\ Pix(backdrop, n)[4] = 0
           /\ Pix(res.out, n) = Pix(source, n)

(***************************************************************************)
(* C9: every call of dissolve on the same two buffers returns what the     *)
(* first call returned, whatever was drawn from the generator before or    *)
(* between the calls: pixel n is decided by draw n after the fixed seed,   *)
(* and a call leaves the generator one draw per pixel past that seed.      *)
(* The calls are those that ran alone: the draws the claim speaks of fall  *)
(* before or between the calls, not into one.                              *)
(***************************************************************************)
C9_DissolveReproducible ==
    /\ (pc \in Running /\ res.alone) =>
           /\ res.out = SubSeq(dissolve(backdrop, source, randState).out, 1, Len(res.out))
           /\ randState = rand_discard(DissolveSeed, Len(res.out) \div 4)
    /\ (res.fn = "dissolve" /\ res.status = "done" /\ res.alone) =>
        /\ res.out = firstRes.out
        /\ Len(res.out) = Len(backdrop)
        /\ \A n \in 0..(NumPixels - 1) :
               Pix(res.out, n) =
                   dissolve_pixel(Pix(backdrop, n), Pix(source, n),
                                  rand(rand_discard(DissolveSeed, n)).value)
        /\ pc \in {"once", "twice"} => randState = rand_discard(DissolveSeed, NumPixels)

\* a second call, made after other code used the generator between the
\* calls, on two pixels of the same source alpha of which the first was
\* taken from the source and the second from the backdrop
C9_Witness ==
    /\ pc = "twice" /\ budget < MaxForeign
    /\ res.status = "done" /\ res.alone
    /\ NumPixels = 2
    /\ Pix(source, 0)[4] = 100 /\ Pix(source, 1)[4] = 100
    /\ Pix(res.out, 0) = <<200, 150, 100, 255>>
    /\ Pix(res.out, 1) = Pix(backdrop, 1)
    /\ res.out = firstRes.out

(***************************************************************************)
(* C10: for all a and b in 0..255, ((a*b + 128) * 257) >> 16 is a*b/255    *)
(* rounded to the nearest integer, and multiply returns this value in each *)
(* colour channel when both alphas are non-zero.                           *)
(***************************************************************************)
C10_MultiplyRounds ==
    (pc = "blended" /\ res.fn = "multiply") =>
        /\ res.status = "done"
        /\ Len(res.out) = 4
        /\ \A k \in 1..3 :
               LET a == source[k]
                   b == backdrop[k]
                   v == Shr((a * b + 128) * 257, 16)
               IN  /\ res.out[k] = v
                   /\ 2 * a * b - 510 * v <= 255
                   /\ 510 * v - 2 * a * b <= 255

\* 3 * 128 / 255 is 1.506 and was rounded up to 2
C10_Witness ==
    /\ pc = "blended" /\ res.fn = "multiply"
    /\ source[1] = 3 /\ backdrop[1] = 128 /\ source[4] # 0 /\ backdrop[4] # 0
    /\ res.out[1] = 2

(***************************************************************************)
(* C11: for all channel values a and b, with both alphas non-zero, the     *)
(* channel multiply returns for (a, b) is 255 less the channel screen      *)
(* returns for (255 - a, 255 - b), and the other way round.                *)
(***************************************************************************)
C11_MultiplyScreenDual ==
    pc = "blended" =>
        \A k \in 1..3 :
            LET a == source[k]
                b == backdrop[k]
            IN  /\ res.fn = "multiply" =>
                       res.out[k] = 255 - screen_channel(255 - a, 255 - b)
                /\ res.fn = "screen" =>
                       255 - res.out[k] = multiply_channel(255 - a, 255 - b)

\* screen of 100 over 200 gave 222, and multiply of 155 over 55 gives 33
C11_Witness ==
    /\ pc = "blended" /\ res.fn = "screen"
    /\ source[1] = 100 /\ backdrop[1] = 200 /\ source[4] # 0 /\ backdrop[4] # 0
    /\ res.out[1] = 222
    /\ multiply_channel(155, 55) = 33

(***************************************************************************)
(* C12 as stated: for all a and b, with both alphas non-zero, divide       *)
(* returns min(255, round(b*255/a)), 0 whenever a = 0 and b whenever       *)
(* a = 255.                                                                *)
(***************************************************************************)
C12_DivideZeroSource ==
    (pc = "blended" /\ res.fn = "divide") =>
        \A k \in 1..3 :
            LET a == source[k]
                b == backdrop[k]
                v == res.out[k]
            IN  /\ a = 0 => v = 0
                /\ a = 255 => v = b
                /\ (a # 0 /\ 510 * b >= 509 * a) => v = 255
                /\ (a # 0 /\ 510 * b < 509 * a) =>
                       (510 * b - 2 * a * v <= a /\ 2 * a * v - 510 * b <= a)

(***************************************************************************)
(* C12 as amended: for a in 1..255 divide returns min(255, round(b*255/a)) *)
(* (b when a = 255); for a = 0 it returns 0 when b = 0 and 255 otherwise.  *)
(***************************************************************************)
C12_Divide ==
    (pc = "blended" /\ res.fn = "divide") =>
        \A k \in 1..3 :
            LET a == source[k]
                b == backdrop[k]
                v == res.out[k]
            IN  /\ a = 0 => v = (IF b = 0 THEN 0 ELSE 255)
                /\ a = 255 => v = b
                /\ (a # 0 /\ 510 * b >= 509 * a) => v = 255
                /\ (a # 0 /\ 510 * b < 509 * a) =>
                       (510 * b - 2 * a * v <= a /\ 2 * a * v - 510 * b <= a)

\* a source channel of 0 over a backdrop channel of 7 gave 255, and
\* 100 * 255 / 200 = 127.5 was rounded to 128
C12_Witness ==
    /\ pc = "blended" /\ res.fn = "divide"
    /\ source[1] = 0 /\ backdrop[1] = 7 /\ source[4] # 0 /\ backdrop[4] # 0
    /\ res.out[1] = 255
    /\ divide_channel(200, 100) = 128

(***************************************************************************)
(* C13 as stated: for all a and b, with both alphas non-zero, exclusion    *)
(* returns a + b - 2*r with r = ((a*b + 128) * 257) >> 16.                 *)
(***************************************************************************)
C13_ExclusionTwiceRounded ==
    (pc = "blended" /\ res.fn = "exclusion") =>
        \A k \in 1..3 :
            LET a == source[k]
                b == backdrop[k]
            IN  res.out[k] = a + b - 2 * Shr((a * b + 128) * 257, 16)

(***************************************************************************)
(* C13 as amended: exclusion returns a + b - q, where q is 2*a*b/255       *)
(* rounded to the nearest integer (the product is doubled before it is     *)
(* rounded, not after).                                                    *)
(***************************************************************************)
C13_Exclusion ==
    (pc = "blended" /\ res.fn = "exclusion") =>
        \A k \in 1..3 :
            LET a == source[k]
                b == backdrop[k]
                q == a + b - res.out[k]
            IN  /\ 4 * a * b - 510 * q <= 255
                /\ 510 * q - 4 * a * b <= 255

\* 2 * 1 * 64 / 255 is 0.502 and was rounded to 1, where twice the rounded
\* product 1 * 64 / 255 is 0
C13_Witness ==
    /\ pc = "blended" /\ res.fn = "exclusion"
    /\ source[1] = 1 /\ backdrop[1] = 64 /\ source[4] # 0 /\ backdrop[4] # 0
    /\ res.out[1] = 64

(***************************************************************************)
(* C14: for all a and b, with both alphas non-zero, overlay returns what   *)
(* multiply returns for (a, 2b) when b < 128 and what screen returns for   *)
(* (a, 2b - 255) otherwise, and the value it stores is in 0..255 before    *)
(* the store truncates it to 8 bits.                                       *)
(***************************************************************************)
C14_OverlayUntruncated ==
    (pc = "blended" /\ res.fn = "overlay") =>
        \A k \in 1..3 :
            LET a == source[k]
                b == backdrop[k]
            IN  /\ res.out[k] = IF b < 128 THEN multiply_channel(a, 2 * b)
                                ELSE screen_channel(a, 2 * b - 255)
                /\ \A build \in OverflowBuilds :
                       /\ overlay_before_store(a, b, build) \in 0..255
                       /\ overlay_before_store(a, b, build) = res.out[k]

(***************************************************************************)
(* C15: for all a and b, with both alphas non-zero, vivid_light returns    *)
(* what color_burn returns for (2a, b) when a < 128 and what color_dodge   *)
(* returns for (2a - 255, b) otherwise.                                    *)
(***************************************************************************)
C15_VividLight ==
    (pc = "blended" /\ res.fn = "vivid_light") =>
        \A k \in 1..3 :
            LET a == source[k]
                b == backdrop[k]
            IN  res.out[k] = IF a < 128 THEN color_burn_channel(2 * a, b)
                             ELSE color_dodge_channel(2 * a - 255, b)

\* a source channel of 100 over a backdrop channel of 200 gave 185, the
\* colour burn of 200 over 200
C15_Witness ==
    /\ pc = "blended" /\ res.fn = "vivid_light"
    /\ source[1] = 100 /\ backdrop[1] = 200 /\ source[4] # 0 /\ backdrop[4] # 0
    /\ res.out[1] = 185
    /\ color_burn_channel(200, 200) = 185

(***************************************************************************)
(* C16: for every source colour A and backdrop colour B, with both alphas  *)
(* non-zero, saturation outputs set_lum(set_sat(B, sat(A)), lum(B)), where *)
(* lum(B) is the luminance of the backdrop as it was passed in.            *)
(***************************************************************************)
C16_SaturationBackdropLum ==
    (pc = "blended" /\ res.fn = "saturation" /\ res.status = "done") =>
        \A n \in Pixels :
            (Pix(source, n)[4] # 0 /\ Pix(backdrop, n)[4] # 0) =>
                LET B == ColorOf(Pix(backdrop, n))
                    A == ColorOf(Pix(source, n))
                    X == set_lum(set_sat(B, get_sat(A)), get_lum(B))
                IN  Pix(res.out, n) = <<U8(X.r), U8(X.g), U8(X.b), Pix(source, n)[4]>>

(***************************************************************************)
(* The layer structure.  The code that rebuilds the tree of layers from    *)
(* the flat list of layer records, and flattens it again on saving, is not *)
(* among the sources; it is modelled from its description: the list is     *)
(* walked in file order with a stack of open groups, a record that is not  *)
(* a divider becomes a child of the group on top of the stack (of the      *)
(* document when no group is open), a bounding divider opens a group, an   *)
(* end-of-section divider closes the nearest open one, and saving emits a  *)
(* layer as one record and a group as a pair of dividers around its        *)
(* flattened children.  Iteration is from background to foreground.        *)
(***************************************************************************)
LayerRecord(name) == [kind |-> "layer", name |-> name, open |-> FALSE]

\* the divider record that opens a group carries its name and folder state
BoundingDivider(name, open) == [kind |-> "bounding", name |-> name, open |-> open]

EndDivider == [kind |-> "end", name |-> "", open |-> FALSE]

Layer(name) == [kind |-> "layer", name |-> name, open |-> FALSE, children |-> <<>>]

Group(name, open, children) ==
    [kind |-> "group", name |-> name, open |-> open, children |-> children]

\* the stack with node made the first child of the group on top
attach_front(stack, node) ==
    [stack EXCEPT ![Len(stack)].children = <<node>> \o @]

\* the stack with node made the last child of the group on top; the bottom
\* of the stack stands for the document
attach(stack, node) ==
    [stack EXCEPT ![Len(stack)].children = Append(@, node)]

reconstruct_step(stack, record) ==
    CASE record.kind = "layer" -> attach(stack, Layer(record.name))
      [] record.kind = "bounding" -> Append(stack, Group(record.name, record.open, <<>>))
      [] record.kind = "end" ->
             IF Len(stack) = 1 THEN stack
             ELSE attach(SubSeq(stack, 1, Len(stack) - 1), stack[Len(stack)])

RECURSIVE reconstruct_loop(_, _, _)
reconstruct_loop(flat, i, stack) ==
    IF i > Len(flat) THEN stack
    ELSE reconstruct_loop(flat, i + 1, reconstruct_step(stack, flat[i]))

\* a group still open where the list ends stays attached where it was opened
RECURSIVE close_open(_)
close_open(stack) ==
    IF Len(stack) = 1 THEN stack[1].children
    ELSE close_open(attach(SubSeq(stack, 1, Len(stack) - 1), stack[Len(stack)]))

reconstruct(flat) == close_open(reconstruct_loop(flat, 1, <<Group("", TRUE, <<>>)>>))

RECURSIVE flatten(_)
flatten(children) ==
    IF children = <<>> THEN <<>>
    ELSE LET node == Head(children)
         IN  (IF node.kind = "group"
              THEN <<BoundingDivider(node.name, node.open)>> \o flatten(node.children) \o <<EndDivider>>
              ELSE <<LayerRecord(node.name)>>)
             \o flatten(Tail(children))

MaxLayerRecords == 5

RecordAlphabet ==
    {LayerRecord("Background"), LayerRecord("Child1"), LayerRecord("Child2"),
     BoundingDivider("G", TRUE), BoundingDivider("G", FALSE), EndDivider}

\* the dividers of a stored list pair up: no end without an open group
\* before it, no group left open
RECURSIVE Nesting(_, _, _)
Nesting(flat, i, depth) ==
    IF i > Len(flat) THEN depth = 0
    ELSE CASE flat[i].kind = "bounding" -> Nesting(flat, i + 1, depth + 1)
           [] flat[i].kind = "end" -> depth > 0 /\ Nesting(flat, i + 1, depth - 1)
           [] OTHER -> Nesting(flat, i + 1, depth)

\* the document is opened: the tree is rebuilt from the records
Reconstruct ==
    /\ pc = "records"
    /\ tree' = reconstruct(records)
    /\ pc' = "tree"
    /\ UNCHANGED <<records, saved, kids, lastCall, nonLayerVars>>

\* the document is saved: the tree is flattened
Save ==
    /\ pc = "tree"
    /\ saved' = flatten(tree)
    /\ pc' = "saved"
    /\ UNCHANGED <<records, tree, kids, lastCall, nonLayerVars>>

InitTree ==
    /\ pc = "records"
    /\ \E n \in 0..MaxLayerRecords :
           \E flat \in [1..n -> RecordAlphabet] :
               /\ Nesting(flat, 1, 0)
               /\ records = flat
    /\ tree = <<>>
    /\ saved = <<>>
    /\ kids = <<>>
    /\ lastCall = <<>>
    /\ PbIdle
    /\ ZipIdle
    /\ BlendIdle

NextTree == Reconstruct \/ Save

SpecTree == InitTree /\ [][NextTree]_vars

(***************************************************************************)
(* C17: rebuilding the tree from a flat record list and flattening it      *)
(* again gives back the list, records and dividers in their places; the    *)
(* list Background, open divider "G", Child1, Child2, end divider gives    *)
(* the tree Background, Group "G" of Child1 and Child2, in that order.     *)
(***************************************************************************)
C17_TreeRoundTrip ==
    /\ pc = "saved" => saved = records
    /\ (pc \in {"tree", "saved"}
        /\ records = <<LayerRecord("Background"), BoundingDivider("G", TRUE),
                       LayerRecord("Child1"), LayerRecord("Child2"), EndDivider>>) =>
           tree = <<Layer("Background"),
                    Group("G", TRUE, <<Layer("Child1"), Layer("Child2")>>)>>

\* the list of the example was rebuilt and saved
C17_Witness ==
    /\ pc = "saved"
    /\ records = <<LayerRecord("Background"), BoundingDivider("G", TRUE),
                   LayerRecord("Child1"), LayerRecord("Child2"), EndDivider>>
    /\ tree[2].kind = "group" /\ Len(tree[2].children) = 2
    /\ saved = records

(***************************************************************************)
(* Editing the layer structure.  The document and the groups are ordered   *)
(* containers of layers with list-like operations; their code is not among *)
(* the sources and is modelled from its description: a layer instance is   *)
(* attached to at most one container at a time, so an operation that       *)
(* attaches a layer takes it out of the container it is in first.          *)
(* Layers are numbered; the document is container 0 and a group is both a  *)
(* layer and a container.                                                  *)
(***************************************************************************)
MaxLayers == 2

MaxGroups == 1

MaxExtend == 2

Document == 0

PixelLayers == 1..MaxLayers

Containers == DOMAIN kids

Groups == Containers \ {Document}

LayerObjects == PixelLayers \cup Groups

Occurrences(s, x) == Cardinality({i \in DOMAIN s : s[i] = x})

IndexOf(s, x) == CHOOSE i \in DOMAIN s : s[i] = x

Without(s, x) == SelectSeq(s, LAMBDA y : y # x)

InsertAt(s, i, x) == SubSeq(s, 1, i) \o <<x>> \o SubSeq(s, i + 1, Len(s))

\* c is the layer g or lies somewhere below it
RECURSIVE is_inside(_, _, _)
is_inside(k, c, g) ==
    \/ c = g
    \/ \E p \in DOMAIN k : Occurrences(k[p], c) > 0 /\ is_inside(k, p, g)

\* a layer may go into container c unless c is the layer or lies below it
check_valid_layer(k, c, x) == ~is_inside(k, c, x)

\* the structure with layer x attached nowhere
detach(k, x) == [c \in DOMAIN k |-> Without(k[c], x)]

\* the structure with layer x at the end of c, wherever it was before
append_kept(k, c, x) == [k EXCEPT ![c] = Append(@, x)]

append(k, c, x) == [detach(k, x) EXCEPT ![c] = Append(@, x)]

RECURSIVE extend(_, _, _)
extend(k, c, xs) ==
    IF xs = <<>> THEN k ELSE extend(append(k, c, Head(xs)), c, Tail(xs))

\* as list.insert: i counts the children in front, clipped to the length
insert(k, c, i, x) ==
    LET d == detach(k, x)
    IN  [d EXCEPT ![c] = InsertAt(@, Min(i, Len(@)), x)]

\* group[i] = x: the layer that was at i leaves the structure and x takes
\* its place
setitem(k, c, i, x) ==
    LET old == k[c][i]
        d == detach(k, x)
    IN  IF old = x THEN k
        ELSE [d EXCEPT ![c] = [@ EXCEPT ![IndexOf(@, old)] = x]]

remove(k, c, x) == [k EXCEPT ![c] = Without(@, x)]

pop(k, c) == [k EXCEPT ![c] = SubSeq(@, 1, Len(@) - 1)]

clear(k, c) == [k EXCEPT ![c] = <<>>]

\* the containers the first layer listed is a child of
group_homes(k, xs) ==
    IF xs = <<>> THEN {}
    ELSE {c \in DOMAIN k : Occurrences(k[c], Head(xs)) > 0}

\* the container a new group of the layers xs becomes a child of
group_parent(k, xs, parent) ==
    IF parent # -1 THEN parent
    ELSE IF group_homes(k, xs) = {} THEN Document
    ELSE CHOOSE c \in group_homes(k, xs) : TRUE

\* a new group g holding the layers xs in their order; with a parent it
\* goes to the end of the parent, without one it takes the place of the
\* first layer listed (the end of the document when none is listed or the
\* first one is attached nowhere)
create_group(k, g, xs, parent) ==
    LET homes == group_homes(k, xs)
        grouped == extend([c \in DOMAIN k \cup {g} |-> IF c = g THEN <<>> ELSE k[c]], g, xs)
    IN  IF parent # -1 THEN [grouped EXCEPT ![parent] = Append(@, g)]
        ELSE IF homes = {} THEN [grouped EXCEPT ![Document] = Append(@, g)]
        ELSE LET home == CHOOSE c \in homes : TRUE
                 at == IndexOf(k[home], Head(xs))
                 before == Len(SelectSeq(SubSeq(k[home], 1, at - 1),
                                         LAMBDA y : Occurrences(xs, y) = 0))
             IN  [grouped EXCEPT ![home] = InsertAt(@, before, g)]

Edited(op, c, x, k) ==
    /\ pc \in {"structure", "edited"}
    /\ kids' = k
    /\ lastCall' = IF op = "append"
                   THEN [op |-> op, container |-> c, layer |-> x,
                         attached |-> \E p \in Containers : Occurrences(kids[p], x) > 0]
                   ELSE [op |-> op]
    /\ pc' = "edited"
    /\ UNCHANGED <<records, tree, saved, nonLayerVars>>

AppendLayer ==
    \E c \in Containers, x \in LayerObjects :
        /\ check_valid_layer(kids, c, x)
        /\ Edited("append", c, x, append(kids, c, x))

ExtendLayers ==
    \E c \in Containers, n \in 1..MaxExtend :
        \E xs \in [1..n -> LayerObjects] :
            /\ \A i \in 1..n : check_valid_layer(kids, c, xs[i])
            /\ Edited("extend", c, xs[n], extend(kids, c, xs))

InsertLayer ==
    \E c \in Containers, x \in LayerObjects :
        \E i \in 0..Len(kids[c]) :
            /\ check_valid_layer(kids, c, x)
            /\ Edited("insert", c, x, insert(kids, c, i, x))

SetItem ==
    \E c \in Containers, x \in LayerObjects :
        \E i \in 1..Len(kids[c]) :
            /\ check_valid_layer(kids, c, x)
            /\ Edited("setitem", c, x, setitem(kids, c, i, x))

RemoveLayer ==
    \E c \in Containers, x \in LayerObjects :
        /\ Occurrences(kids[c], x) > 0
        /\ Edited("remove", c, x, remove(kids, c, x))

PopLayer ==
    \E c \in Containers :
        /\ kids[c] # <<>>
        /\ Edited("pop", c, kids[c][Len(kids[c])], pop(kids, c))

ClearLayers ==
    \E c \in Containers :
        /\ kids[c] # <<>>
        /\ Edited("clear", c, kids[c][1], clear(kids, c))

CreateGroup ==
    \E n \in 0..MaxExtend, parent \in Containers \cup {-1} :
        \E xs \in [1..n -> LayerObjects] :
            LET g == MaxLayers + Cardinality(Containers)
            IN  /\ Cardinality(Groups) < MaxGroups
                /\ \A i, j \in 1..n : xs[i] = xs[j] => i = j
                /\ \A i \in 1..n : check_valid_layer(kids, group_parent(kids, xs, parent), xs[i])
                /\ Edited("create_group", parent, g, create_group(kids, g, xs, parent))

\* a document whose layers are all children of the document itself
InitLayers ==
    /\ pc = "structure"
    /\ kids = [c \in {Document} |-> [i \in PixelLayers |-> i]]
    /\ lastCall = <<>>
    /\ records = <<>>
    /\ tree = <<>>
    /\ saved = <<>>
    /\ PbIdle
    /\ ZipIdle
    /\ BlendIdle

NextLayers ==
    \/ AppendLayer
    \/ ExtendLayers
    \/ InsertLayer
    \/ SetItem
    \/ RemoveLayer
    \/ PopLayer
    \/ ClearLayers
    \/ CreateGroup

SpecLayers == InitLayers /\ [][NextLayers]_vars

(***************************************************************************)
(* C18: whatever the editing calls made, every layer is a child of at most *)
(* one container and stands at most once in its child list; after          *)
(* appending a layer that was attached already, it is the last child of    *)
(* the container it was appended to and nowhere else.                      *)
(***************************************************************************)
C18_SingleContainer ==
    /\ \A x \in LayerObjects :
           /\ Cardinality({c \in Containers : Occurrences(kids[c], x) > 0}) <= 1
           /\ \A c \in Containers : Occurrences(kids[c], x) <= 1
    /\ (pc = "edited" /\ lastCall.op = "append" /\ lastCall.attached) =>
           /\ kids[lastCall.container] # <<>>
           /\ kids[lastCall.container][Len(kids[lastCall.container])] = lastCall.layer

\* a pixel layer attached to the document was appended to a group and is
\* now the group's child, not the document's
C18_Witness ==
    /\ pc = "edited"
    /\ lastCall.op = "append"
    /\ lastCall.attached
    /\ lastCall.container \in Groups
    /\ lastCall.layer \in PixelLayers
    /\ Occurrences(kids[lastCall.container], lastCall.layer) = 1
    /\ Occurrences(kids[Document], lastCall.layer) = 0
    /\ Len(kids[Document]) >= 2

(***************************************************************************)
(* encode, the two earlier revisions.  They differ from the current one in *)
(* the literal branch only: the test for a pair of equal bytes near the    *)
(* end of a literal run uses a margin of 4 (first revision) or 2 (second)  *)
(* and reads data[j+1] without the test j+1 == length the current revision *)
(* makes first.  data is a typed memoryview indexed with bounds checking,  *)
(* so the read behind the last byte raises IndexError.                     *)
(***************************************************************************)
\* the body of the inner loop of the literal branch: what it does at j
encode_margin_literal_body(data, i, j, margin) ==
    LET length == Len(data)
    IN  IF j - i >= MAX_LEN THEN "break"
        ELSE IF j + 1 < length /\ At(data, j) # At(data, j + 1) THEN "next"
        ELSE IF (j + 2 = length) \/ (MAX_LEN - (j - i) <= margin)
             THEN IF j + 1 >= length THEN "IndexError"
                  ELSE IF At(data, j) = At(data, j + 1) THEN "break"
                  ELSE IF j + 2 < length
                          /\ At(data, j) = At(data, j + 1)
                          /\ At(data, j + 1) = At(data, j + 2) THEN "break"
                  ELSE "next"
        ELSE IF j + 2 < length
                /\ At(data, j) = At(data, j + 1)
                /\ At(data, j + 1) = At(data, j + 2) THEN "break"
        ELSE "next"

\* the inner loop of the literal branch: j where it ends, by running out of
\* data, by a break or by the exception
RECURSIVE encode_margin_literal_scan(_, _, _, _)
encode_margin_literal_scan(data, i, j, margin) ==
    IF j < Len(data) /\ encode_margin_literal_body(data, i, j, margin) = "next"
    THEN encode_margin_literal_scan(data, i, j + 1, margin)
    ELSE j

encode_margin_step(data, st, margin) ==
    LET length == Len(data)
        i      == st.i
        j      == st.j
    IN  IF j + 1 < length /\ At(data, j) = At(data, j + 1)
        THEN LET je == encode_repeat_scan(data, i, j)
             IN  [i      |-> je + 1,
                  j      |-> je + 1,
                  status |-> "run",
                  result |-> st.result \o <<AsChar(-(je - i)), At(data, i)>>]
        ELSE LET je == encode_margin_literal_scan(data, i, j, margin)
             IN  IF je < length /\ encode_margin_literal_body(data, i, je, margin) = "IndexError"
                 THEN [i |-> i, j |-> je, status |-> "IndexError", result |-> <<>>]
                 ELSE [i      |-> je,
                       j      |-> je,
                       status |-> "run",
                       result |-> (st.result \o <<AsChar(je - i - 1)>>)
                                     \o Slice(data, i, je - i)]

RECURSIVE encode_margin_loop(_, _, _)
encode_margin_loop(data, st, margin) ==
    IF st.status = "run" /\ st.i < Len(data)
    THEN encode_margin_loop(data, encode_margin_step(data, st, margin), margin)
    ELSE st

\* the function: the exception raised or "ok", and the bytes returned
encode_margin(data, margin) ==
    IF Len(data) = 0 THEN [status |-> "ok", result |-> data]
    ELSE IF Len(data) = 1 THEN [status |-> "ok", result |-> <<0, At(data, 0)>>]
    ELSE LET st == encode_margin_loop(data, [i |-> 0, j |-> 0, status |-> "run",
                                             result |-> <<>>], margin)
         IN  [status |-> IF st.status = "run" THEN "ok" ELSE st.status,
              result |-> st.result]


\* one call of an earlier revision of encode: the stream it returns, or the
\* exception it raises
EncodeMargin(margin) ==
    /\ pc = "raw"
    /\ LET e == encode_margin(raw, margin)
       IN  IF e.status = "ok"
           THEN /\ stream' = e.result
                /\ dec' = dec
                /\ pc' = "encoded"
           ELSE /\ stream' = stream
                /\ dec' = [NoDec EXCEPT !.fn = "encode", !.status = e.status]
                /\ pc' = "raised"
    /\ UNCHANGED <<raw, declared, enc, nonPbVars>>

EncodeMargin4 == EncodeMargin(4)

EncodeMargin2 == EncodeMargin(2)

NextMargin == EncodeMargin4 \/ EncodeMargin2 \/ DecodeStrict

SpecMargin == InitRoundTrip /\ [][NextMargin]_vars

(***************************************************************************)
(* C19: on every buffer B both earlier revisions of the greedy encoder     *)
(* return a stream, and the strict decoder called with len(B) decodes it   *)
(* to B.                                                                   *)
(***************************************************************************)
C19_MarginRoundTrip ==
    /\ pc # "raised"
    /\ (pc = "decoded" /\ dec.fn = "strict") => (dec.status = "ok" /\ dec.out = raw)

(***************************************************************************)
(* encode, the RAW/RLE revision: one pass over the bytes with a state, a   *)
(* buffer of pending literal bytes and a count of pending equal bytes.     *)
(* result and buf are bytearrays, whose append raises ValueError for a     *)
(* value outside 0..255.                                                   *)
(***************************************************************************)
MAX_LENGTH == 127

\* bytearray.append
bytearray_append(st, v) ==
    IF v \in 0..255 THEN [st EXCEPT !.result = Append(@, v)]
    ELSE [st EXCEPT !.status = "ValueError"]

\* finish_raw and finish_rle; calls lists the calls that emitted a record,
\* each with the length of buf or the repeat_count it was made with
\* finish_raw with the header counting the bytes, not the bytes less one
finish_raw_count(st) ==
    IF Len(st.buf) = 0 THEN st
    ELSE LET headed == bytearray_append(st, Len(st.buf))
         IN  IF headed.status # "run" THEN headed
             ELSE [headed EXCEPT !.result = @ \o st.buf, !.buf = <<>>,
                                 !.calls = Append(@, <<"finish_raw", Len(st.buf)>>)]

\* the append of the header raises for a buf of more than 256 bytes, and
\* result and buf are then left as they were
finish_raw(st) ==
    IF Len(st.buf) = 0 THEN st
    ELSE LET headed == bytearray_append(st, Len(st.buf) - 1)
         IN  IF headed.status # "run" THEN headed
             ELSE [headed EXCEPT !.result = @ \o st.buf, !.buf = <<>>,
                                 !.calls = Append(@, <<"finish_raw", Len(st.buf)>>)]

finish_rle(st, data) ==
    LET headed == bytearray_append([st EXCEPT !.calls = Append(@, <<"finish_rle", st.repeat_count>>)],
                                   256 - (st.repeat_count - 1))
    IN  IF headed.status # "run" THEN headed
        ELSE [headed EXCEPT !.result = Append(@, At(data, st.pos))]

\* the locals when the loop is entered
encode_rle_start ==
    [fn |-> "encode_rle", pos |-> 0, repeat_count |-> 0, state |-> "RAW", status |-> "run",
     result |-> <<>>, buf |-> <<>>, calls |-> <<>>]

\* encode_rle_step with the restart of a full repeat run three bytes late
encode_rle_step_late(data, st) ==
    LET next ==
        IF At(data, st.pos) = At(data, st.pos + 1)
        THEN IF st.state = "RAW"
             THEN [finish_raw(st) EXCEPT !.state = "RLE", !.repeat_count = 1]
             ELSE LET flushed == IF st.repeat_count = MAX_LENGTH + 3
                                 THEN [finish_rle(st, data) EXCEPT !.repeat_count = 0]
                                 ELSE st
                  IN  [flushed EXCEPT !.repeat_count = @ + 1]
        ELSE IF st.state = "RLE"
             THEN [finish_rle([st EXCEPT !.repeat_count = @ + 1], data)
                       EXCEPT !.state = "RAW", !.repeat_count = 0]
             ELSE LET flushed == IF Len(st.buf) = MAX_LENGTH THEN finish_raw(st) ELSE st
                  IN  [flushed EXCEPT !.buf = Append(@, At(data, st.pos))]
    IN  [next EXCEPT !.pos = @ + 1]

\* one iteration of the while loop
encode_rle_step(data, st) ==
    LET next ==
        IF At(data, st.pos) = At(data, st.pos + 1)
        THEN IF st.state = "RAW"
             THEN [finish_raw(st) EXCEPT !.state = "RLE", !.repeat_count = 1]
             ELSE LET flushed == IF st.repeat_count = MAX_LENGTH
                                 THEN [finish_rle(st, data) EXCEPT !.repeat_count = 0]
                                 ELSE st
                  IN  [flushed EXCEPT !.repeat_count = @ + 1]
        ELSE IF st.state = "RLE"
             THEN [finish_rle([st EXCEPT !.repeat_count = @ + 1], data)
                       EXCEPT !.state = "RAW", !.repeat_count = 0]
             ELSE LET flushed == IF Len(st.buf) = MAX_LENGTH THEN finish_raw(st) ELSE st
                  IN  [flushed EXCEPT !.buf = Append(@, At(data, st.pos))]
    IN  [next EXCEPT !.pos = @ + 1]

\* an iteration of the while loop if the loop has not ended
encode_rle_iterate(data, st) ==
    IF st.status = "run" /\ st.pos < Len(data) - 1 THEN encode_rle_step(data, st) ELSE st

\* the while loop, eight iterations at a time
RECURSIVE encode_rle_loop(_, _)
encode_rle_loop(data, st) ==
    IF st.status = "run" /\ st.pos < Len(data) - 1
    THEN encode_rle_loop(data,
             encode_rle_iterate(data, encode_rle_iterate(data,
             encode_rle_iterate(data, encode_rle_iterate(data,
             encode_rle_iterate(data, encode_rle_iterate(data,
             encode_rle_iterate(data, encode_rle_iterate(data, st)))))))))
    ELSE st

\* what follows the loop: the last byte and the pending run
encode_rle_finish(data, st) ==
    IF st.status # "run" THEN st
    ELSE IF st.state = "RAW"
    THEN finish_raw([st EXCEPT !.buf = Append(@, At(data, st.pos))])
    ELSE finish_rle([st EXCEPT !.repeat_count = @ + 1], data)

\* the function: the exception raised or "ok", and the bytes returned
encode_rle(data) ==
    IF Len(data) = 0 THEN [status |-> "ok", result |-> data]
    ELSE IF Len(data) = 1 THEN [status |-> "ok", result |-> <<0>> \o data]
    ELSE LET st == encode_rle_finish(data, encode_rle_loop(data, encode_rle_start))
         IN  [status |-> IF st.status = "run" THEN "ok" ELSE st.status,
              result |-> st.result]

EncodeRle ==
    /\ pc = "raw"
    /\ LET e == encode_rle(raw)
       IN  IF e.status = "ok"
           THEN /\ stream' = e.result
                /\ dec' = dec
                /\ pc' = "encoded"
           ELSE /\ stream' = stream
                /\ dec' = [NoDec EXCEPT !.fn = "encode", !.status = e.status]
                /\ pc' = "raised"
    /\ UNCHANGED <<raw, declared, enc, nonPbVars>>

NextRle == EncodeRle \/ DecodeSized \/ DecodeSizeless

SpecRle == InitRoundTrip /\ [][NextRle]_vars

(***************************************************************************)
(* C20: the stream the RAW/RLE encoder returns for a buffer B is decoded   *)
(* to B by the sized strict decoder called with len(B) and by the decoder  *)
(* that takes no size.                                                     *)
(***************************************************************************)
C20_RleRoundTrip ==
    /\ pc # "raised"
    /\ (pc = "decoded" /\ dec.fn \in {"sized", "sizeless"}) =>
           (dec.status = "ok" /\ dec.out = raw)

\* a buffer of 129 bytes or more whose stream holds a full literal record
\* and a full repeat record, decoded by the sized decoder
C20_Witness ==
    /\ pc = "decoded"
    /\ dec.fn = "sized"
    /\ Len(raw) >= 129
    /\ dec.out = raw
    /\ \E k \in 1..Len(stream) : stream[k] = 127
    /\ \E k \in 1..Len(stream) : stream[k] = 129

(***************************************************************************)
(* The records of a well-formed stream: for each its kind, the number of   *)
(* bytes it stands for, and where in the buffer these bytes start.         *)
(***************************************************************************)
RECURSIVE RecordsFrom(_, _, _)
RecordsFrom(s, pos, done) ==
    IF pos >= Len(s) THEN <<>>
    ELSE LET v == At(s, pos)
         IN  IF v <= 127
             THEN <<[kind |-> "literal", header |-> v, count |-> v + 1, from |-> done,
                     bytes |-> Slice(s, pos + 1, v + 1)]>>
                  \o RecordsFrom(s, pos + v + 2, done + v + 1)
             ELSE IF v = 128
             THEN <<[kind |-> "noop", header |-> v, count |-> 0, from |-> done, bytes |-> <<>>]>>
                  \o RecordsFrom(s, pos + 1, done)
             ELSE <<[kind |-> "repeat", header |-> v, count |-> 257 - v, from |-> done,
                     bytes |-> <<At(s, pos + 1)>>]>>
                  \o RecordsFrom(s, pos + 2, done + (257 - v))

RecordsOf(s) == RecordsFrom(s, 0, 0)

NoEqualNeighbours(buf) == \A k \in 1..(Len(buf) - 1) : buf[k] # buf[k + 1]

(***************************************************************************)
(* C21 as stated: no repeat record has more than 128 repetitions, no       *)
(* literal record more than 128 bytes, and a buffer of 128 bytes or more   *)
(* without two equal neighbours starts with a literal record of 128 bytes  *)
(* (header 127).                                                           *)
(***************************************************************************)
C21_LiteralCap128 ==
    (pc \in {"encoded", "decoded"} /\ Len(raw) >= 2) =>
        LET recs == RecordsOf(stream)
        IN  /\ \A k \in 1..Len(recs) : recs[k].count <= 128
            /\ (Len(raw) >= 128 /\ NoEqualNeighbours(raw)) =>
                   (recs[1].kind = "literal" /\ recs[1].header = 127 /\ recs[1].count = 128)

(***************************************************************************)
(* C21, amended: the greedy encoder emits no repeat record of more than    *)
(* 128 repetitions and no literal record of more than 127 bytes (header    *)
(* 126); a buffer of 127 bytes or more without two equal neighbours starts *)
(* with a literal record of 127 bytes.                                     *)
(***************************************************************************)
C21_RunCaps ==
    (pc \in {"encoded", "decoded"} /\ Len(raw) >= 2) =>
        LET recs == RecordsOf(stream)
        IN  /\ WellFormed(stream)
            /\ \A k \in 1..Len(recs) :
                   /\ recs[k].kind = "repeat" => recs[k].count <= 128
                   /\ recs[k].kind = "literal" => recs[k].count <= 127
            /\ (Len(raw) >= 127 /\ NoEqualNeighbours(raw)) =>
                   (recs[1].kind = "literal" /\ recs[1].header = 126 /\ recs[1].count = 127)

\* a buffer of 128 bytes without two equal neighbours was encoded, and so
\* was one with a run of 128 equal bytes that became one repeat record
C21_Witness ==
    /\ pc = "encoded"
    /\ Len(raw) >= 256
    /\ \E k \in 1..Len(RecordsOf(stream)) :
           RecordsOf(stream)[k].kind = "repeat" /\ RecordsOf(stream)[k].count = 128
    /\ \E k \in 1..Len(RecordsOf(stream)) :
           /\ RecordsOf(stream)[k].kind = "literal" /\ RecordsOf(stream)[k].count = 127
           /\ RecordsOf(stream)[k + 1].kind = "literal"

(***************************************************************************)
(* C22: while the greedy encoder is in a literal run (the literal record   *)
(* starts at f and has reached position p > f), three or more equal bytes  *)
(* starting at p end the record at p and a repeat record follows; exactly  *)
(* two equal bytes starting at p stay in the record unless they are the    *)
(* last two bytes of the buffer or the record holds 125 bytes or more      *)
(* already, and then a repeat record of the two follows.  The buffer of    *)
(* the comment is encoded as literal(ABCDDEF), repeat(6 x G),              *)
(* literal(HIJJK).                                                         *)
(***************************************************************************)
C22_LiteralBreaks ==
    (pc \in {"encoded", "decoded"} /\ Len(raw) >= 2) =>
        LET recs == RecordsOf(stream)
            length == Len(raw)
            EndsAt(k, p) == /\ recs[k].from + recs[k].count = p
                            /\ k < Len(recs)
                            /\ recs[k + 1].kind = "repeat"
        IN  /\ \A k \in 1..Len(recs) :
                   recs[k].kind = "literal" =>
                       \A p \in (recs[k].from + 1)..Min(recs[k].from + recs[k].count, length - 2) :
                           LET held == p - recs[k].from
                               pair == At(raw, p) = At(raw, p + 1) /\ At(raw, p - 1) # At(raw, p)
                               three == pair /\ p + 2 < length /\ At(raw, p + 2) = At(raw, p)
                           IN  /\ three => EndsAt(k, p)
                               /\ (pair /\ ~three) =>
                                      IF p + 2 = length \/ held >= 125
                                      THEN EndsAt(k, p) /\ recs[k + 1].count = 2
                                      ELSE p + 1 < recs[k].from + recs[k].count
            /\ raw = CommentExample =>
                   stream = <<6, 65, 66, 67, 68, 68, 69, 70>> \o <<251, 71>>
                                \o <<4, 72, 73, 74, 74, 75>>

\* the buffer of the comment was encoded; and a buffer in which a pair of
\* equal bytes comes after 124 literal bytes and stays in the literal record
C22_Witness ==
    /\ pc = "encoded"
    /\ raw = CommentExample
    /\ Len(RecordsOf(stream)) = 3

\* a pair of equal bytes after 124 literal bytes stays in the literal record
C22_PairKept ==
    /\ pc = "encoded"
    /\ Len(raw) = 127
    /\ raw[125] = raw[126]
    /\ RecordsOf(stream)[1].kind = "literal"
    /\ RecordsOf(stream)[1].count = 127

\* a pair of equal bytes after 125 literal bytes ends the literal record
C22_PairSplit ==
    /\ pc = "encoded"
    /\ Len(raw) = 128
    /\ raw[126] = raw[127]
    /\ RecordsOf(stream)[1].kind = "literal"
    /\ RecordsOf(stream)[1].count = 125
    /\ RecordsOf(stream)[2].kind = "repeat"

\* values rand() may return, its least and its greatest among them
DrawSamples == {0, 1, 253, 254, 255, 256, 509, 510, 2147483646, 2147483647}

(***************************************************************************)
(* C23: every pixel dissolve returns is the backdrop pixel, all four bytes *)
(* unchanged, or the source colour with alpha 255; the value the source    *)
(* alpha is compared with lies in 1..255, so a source pixel of alpha 255   *)
(* is taken and one of alpha 0 is not, whatever rand() returns.            *)
(***************************************************************************)
C23_DissolveChoice ==
    res.fn = "dissolve" =>
        /\ (rand(randState).value % 255) + 1 \in 1..255
        /\ \A n \in 0..((Len(res.out) \div 4) - 1) :
            LET p1 == Pix(backdrop, n)
                p2 == Pix(source, n)
                taken == <<p2[1], p2[2], p2[3], 255>>
            IN  /\ Pix(res.out, n) \in {p1, taken}
                /\ p2[4] = 255 => Pix(res.out, n) = taken
                /\ p2[4] = 0 => Pix(res.out, n) = p1
                /\ \A draw \in DrawSamples :
                       /\ dissolve_pixel(p1, p2, draw) \in {p1, taken}
                       /\ p2[4] = 255 => dissolve_pixel(p1, p2, draw) = taken
                       /\ p2[4] = 0 => dissolve_pixel(p1, p2, draw) = p1

\* two pixels were dissolved, the first of source alpha 255 and taken, the
\* second of source alpha 0 and left as the backdrop
C23_Witness ==
    /\ res.fn = "dissolve" /\ res.status = "done"
    /\ NumPixels = 2
    /\ Pix(source, 0)[4] = 255 /\ Pix(res.out, 0) = <<200, 150, 100, 255>>
    /\ Pix(source, 1)[4] = 0 /\ Pix(res.out, 1) = <<10, 20, 30, 40>>

(***************************************************************************)
(* The tolerant decoder one loop iteration at a time: dec holds the        *)
(* cursors and the result as they stand between iterations.                *)
(***************************************************************************)
\* the call up to the loop: the result is resized, a one-byte input returns
TolerantEnter ==
    /\ pc = "stream"
    /\ dec' = IF Len(stream) = 1
              THEN Outcome("tolerant", Return(DecStart(Zeros(declared))))
              ELSE Outcome("tolerant", DecStart(Zeros(declared)))
    /\ pc' = IF Len(stream) = 1 THEN "decoded" ELSE "loop"
    /\ UNCHANGED <<raw, stream, declared, enc, nonPbVars>>

\* one iteration of the while loop
TolerantIterate ==
    /\ pc = "loop"
    /\ dec.status = "run" /\ dec.i < Len(stream) /\ dec.j < declared
    /\ dec' = decode_tolerant_step(stream, declared, dec)
    /\ pc' = "loop"
    /\ UNCHANGED <<raw, stream, declared, enc, nonPbVars>>

\* the loop has ended, by its condition or by a break
TolerantLeave ==
    /\ pc = "loop"
    /\ ~(dec.status = "run" /\ dec.i < Len(stream) /\ dec.j < declared)
    /\ dec' = Return(dec)
    /\ pc' = "decoded"
    /\ UNCHANGED <<raw, stream, declared, enc, nonPbVars>>

NextTolerant == TolerantEnter \/ TolerantIterate \/ TolerantLeave

SpecTolerant == InitDecode /\ [][NextTolerant]_vars

(***************************************************************************)
(* C24: between any two iterations of the tolerant decoder, and when it    *)
(* returns, 0 <= i <= len(data) and 0 <= j <= size; no iteration read data *)
(* at an index >= len(data) or wrote the result at an index >= size.       *)
(***************************************************************************)
C24_TolerantInBounds ==
    dec.fn = "tolerant" =>
        /\ 0 <= dec.i /\ dec.i <= Len(stream)
        /\ 0 <= dec.j /\ dec.j <= declared
        /\ Len(dec.out) = declared
        /\ ~dec.oob
        /\ pc = "decoded" => dec = Outcome("tolerant", decode_tolerant(stream, declared))

\* the decoder is in its loop after an iteration that clipped a run at the
\* end of the result, with input left
C24_Witness ==
    /\ pc = "loop"
    /\ dec.fn = "tolerant"
    /\ dec.i > 0 /\ dec.i < Len(stream)
    /\ declared > 0 /\ dec.j = declared
    /\ Len(Expand(stream)) > declared

(***************************************************************************)
(* The RAW/RLE encoder one loop iteration at a time: enc holds its locals  *)
(* between iterations.                                                     *)
(***************************************************************************)
MaxLoopRuns == 2    \* most runs in a buffer or stream handled one iteration at a time

\* a buffer is handed to an encoder that is followed iteration by iteration
InitLoop ==
    /\ pc = "raw"
    /\ \/ raw \in SeqsUpTo({0, 1}, MaxSmall)
       \/ \E cs \in SeqsUpTo(Chunks, MaxLoopRuns) : raw = ChunkBuffer(cs)
       \/ raw = CommentExample
    /\ stream = <<>>
    /\ declared = Len(raw)
    /\ dec = NoDec
    /\ enc = NoEnc
    /\ ZipIdle
    /\ BlendIdle
    /\ LayerIdle

\* the call up to the loop: inputs of fewer than two bytes return at once
RleEnter ==
    /\ pc = "raw"
    /\ IF Len(raw) < 2
       THEN /\ stream' = encode_rle(raw).result
            /\ enc' = [fn |-> "encode_rle", status |-> "ok"]
            /\ pc' = "encoded"
       ELSE /\ stream' = stream
            /\ enc' = encode_rle_start
            /\ pc' = "rle_loop"
    /\ UNCHANGED <<raw, declared, dec, nonPbVars>>

\* one iteration of the while loop
RleIterate ==
    /\ pc = "rle_loop"
    /\ enc.status = "run" /\ enc.pos < Len(raw) - 1
    /\ enc' = encode_rle_step(raw, enc)
    /\ pc' = "rle_loop"
    /\ UNCHANGED <<raw, stream, declared, dec, nonPbVars>>

\* the loop has ended: the pending bytes are emitted and the result returned
RleLeave ==
    /\ pc = "rle_loop"
    /\ ~(enc.status = "run" /\ enc.pos < Len(raw) - 1)
    /\ LET st == encode_rle_finish(raw, enc)
       IN  IF st.status = "run"
           THEN /\ stream' = st.result
                /\ enc' = [st EXCEPT !.status = "ok"]
                /\ pc' = "encoded"
           ELSE /\ stream' = stream
                /\ enc' = st
                /\ pc' = "raised"
    /\ UNCHANGED <<raw, declared, dec, nonPbVars>>

NextRleSteps == RleEnter \/ RleIterate \/ RleLeave

SpecRleSteps == InitLoop /\ [][NextRleSteps]_vars

(***************************************************************************)
(* C25: on a buffer of two bytes or more the RAW/RLE encoder calls         *)
(* finish_rle with repeat_count in 2..128 only, finish_raw emits buffers   *)
(* of 1..128 bytes only, every header byte of the result is in 0..127 or   *)
(* 129..255, and the records returned stand for the bytes of the buffer,   *)
(* each once and in order.                                                 *)
(***************************************************************************)
C25_RleCalls ==
    (enc.fn = "encode_rle" /\ Len(raw) >= 2) =>
        /\ enc.status \in {"run", "ok"}
        /\ \A k \in 1..Len(enc.calls) :
               /\ enc.calls[k][1] = "finish_rle" => enc.calls[k][2] \in 2..128
               /\ enc.calls[k][1] = "finish_raw" => enc.calls[k][2] \in 1..128
        /\ WellFormed(enc.result)
        /\ LET recs == RecordsOf(enc.result)
           IN  /\ Len(recs) = Len(enc.calls)
               /\ \A k \in 1..Len(recs) :
                      /\ recs[k].header \in (0..127) \cup (129..255)
                      /\ recs[k].count = enc.calls[k][2]
                      /\ \A n \in 0..(recs[k].count - 1) :
                             At(raw, recs[k].from + n) =
                                 IF recs[k].kind = "literal" THEN recs[k].bytes[n + 1]
                                 ELSE recs[k].bytes[1]
               /\ pc = "encoded" =>
                      /\ stream = enc.result
                      /\ stream = encode_rle(raw).result
                      /\ Sum([k \in 1..Len(recs) |-> recs[k].count]) = Len(raw)

\* the encoder returned after a finish_rle call with repeat_count 128 and a
\* finish_raw call with 128 bytes in the buffer
C25_Witness ==
    /\ pc = "encoded"
    /\ enc.fn = "encode_rle"
    /\ Len(raw) >= 2
    /\ \E k \in 1..Len(enc.calls) : enc.calls[k] = <<"finish_rle", 128>>
    /\ \E k \in 1..Len(enc.calls) : enc.calls[k] = <<"finish_raw", 128>>

(***************************************************************************)
(* C26: whenever the strict decoder on a pre-sized result returns a byte   *)
(* string of length size for (data, size), the tolerant decoder returns    *)
(* the same byte string for the same (data, size).                         *)
(***************************************************************************)
C26_TolerantAgreesWithStrict ==
    (/\ pc = "decoded"
     /\ dec.fn = "strict"
     /\ dec.status = "ok"
     /\ Len(dec.out) = declared) =>
        /\ decode_tolerant(stream, declared).status = "ok"
        /\ decode_tolerant(stream, declared).out = dec.out

\* strict decoding succeeded on a stream with a repeat run, a literal run
\* and a trailing no-op header that the tolerant loop never reaches
C26_Witness ==
    /\ pc = "decoded"
    /\ dec.fn = "strict"
    /\ dec.status = "ok"
    /\ declared > 0
    /\ Len(dec.out) = declared
    /\ Len(stream) >= 5
    /\ \E k \in 1..Len(RecordsOf(stream)) : RecordsOf(stream)[k].kind = "repeat"
    /\ \E k \in 1..Len(RecordsOf(stream)) : RecordsOf(stream)[k].kind = "literal"
    /\ stream[Len(stream)] = 128
    /\ decode_tolerant(stream, declared).i < Len(stream)
    /\ decode_tolerant(stream, declared).out = dec.out

(***************************************************************************)
(* The three loops, one iteration per step: the greedy encoder, the        *)
(* RAW/RLE encoder and the tolerant decoder.  A call that has entered its  *)
(* loop goes on to the next iteration or to the return.                    *)
(***************************************************************************)
MaxLoopStream == 3    \* longest arbitrary stream decoded one iteration at a time

\* the locals of the greedy encoder after the two early returns
encode_start == [fn |-> "encode", status |-> "run", i |-> 0, j |-> 0, result |-> <<>>]

GreedyEnter ==
    /\ pc = "raw"
    /\ IF Len(raw) < 2
       THEN /\ stream' = encode(raw)
            /\ enc' = [fn |-> "encode", status |-> "ok"]
            /\ pc' = "encoded"
       ELSE /\ stream' = stream
            /\ enc' = encode_start
            /\ pc' = "greedy_loop"
    /\ UNCHANGED <<raw, declared, dec, nonPbVars>>

\* one iteration of the outer while loop
GreedyIterate ==
    /\ pc = "greedy_loop"
    /\ enc.i < Len(raw)
    /\ LET st == encode_step(raw, enc)
       IN  enc' = [enc EXCEPT !.i = st.i, !.j = st.j, !.result = st.result]
    /\ pc' = "greedy_loop"
    /\ UNCHANGED <<raw, stream, declared, dec, nonPbVars>>

\* the outer loop has ended and the result is returned
GreedyLeave ==
    /\ pc = "greedy_loop"
    /\ ~(enc.i < Len(raw))
    /\ stream' = enc.result
    /\ enc' = [enc EXCEPT !.status = "ok"]
    /\ pc' = "encoded"
    /\ UNCHANGED <<raw, declared, dec, nonPbVars>>

\* a buffer for one of the encoders, or a stream and a size for the decoder
InitLoops ==
    \/ InitLoop
    \/ /\ pc = "stream"
       /\ raw = <<>>
       /\ \/ /\ stream \in SeqsUpTo(StreamBytes, MaxLoopStream)
             /\ declared \in 0..MaxSize
          \/ \E vs \in SeqsUpTo(Headers, MaxLoopRuns), d \in {-1, 0, 1} :
                /\ RecordTotal(vs) + d >= 0
                /\ stream = RecordStream(vs)
                /\ declared = RecordTotal(vs) + d
       /\ dec = NoDec
       /\ enc = NoEnc
       /\ ZipIdle
       /\ BlendIdle
       /\ LayerIdle

NextLoops ==
    \/ GreedyEnter
    \/ GreedyIterate
    \/ GreedyLeave
    \/ RleEnter
    \/ RleIterate
    \/ RleLeave
    \/ TolerantEnter
    \/ TolerantIterate
    \/ TolerantLeave

\* a call that has a step to take takes it: the loops are sequential code
SpecLoops == InitLoops /\ [][NextLoops]_vars /\ WF_vars(NextLoops)

\* what one iteration of each loop does to its cursor
C27_Progress ==
    /\ (pc = "greedy_loop" /\ pc' = "greedy_loop") =>
          /\ enc'.i > enc.i
          /\ enc'.i <= Len(raw)
          /\ WellFormed(enc'.result)
          /\ Len(RecordsOf(enc'.result)) = Len(RecordsOf(enc.result)) + 1
          /\ LET r == RecordsOf(enc'.result)[Len(RecordsOf(enc'.result))]
             IN  r.count = enc'.i - enc.i /\ r.count >= 1
    /\ (pc = "loop" /\ pc' = "loop") =>
          dec'.i > dec.i /\ dec'.i <= Len(stream)
    /\ (pc = "rle_loop" /\ pc' = "rle_loop") =>
          enc'.pos = enc.pos + 1 /\ enc'.pos < Len(raw)

(***************************************************************************)
(* C27: the encoders and the tolerant decoder terminate.  Every iteration  *)
(* of the greedy encoder's outer loop emits one record that covers at      *)
(* least one input byte and moves i forward by that many bytes, every      *)
(* iteration of the tolerant decoder moves i forward, every iteration of   *)
(* the RAW/RLE encoder moves pos forward by one, and every call returns.   *)
(***************************************************************************)
C27_LoopsTerminate ==
    /\ [][C27_Progress]_vars
    /\ <>(pc \in {"encoded", "decoded"})

\* the greedy encoder has returned after its loop emitted a literal record
\* of one byte and a repeat record
C27_Witness ==
    /\ pc = "encoded"
    /\ enc.fn = "encode"
    /\ Len(raw) >= 2
    /\ enc.i = Len(raw)
    /\ \E k \in 1..Len(RecordsOf(stream)) :
          RecordsOf(stream)[k].kind = "literal" /\ RecordsOf(stream)[k].count = 1
    /\ \E k \in 1..Len(RecordsOf(stream)) : RecordsOf(stream)[k].kind = "repeat"

(***************************************************************************)
(* The divisions of the blend functions.  Each divisor operator follows    *)
(* the branches of its function down to the division and gives the set of  *)
(* the values the code divides by: one value on the paths that divide, and *)
(* none on the others.                                                     *)
(***************************************************************************)
color_burn_divisor(a, b) ==
    IF b = 255 THEN {}
    ELSE IF a = 255 THEN {}
    ELSE IF Not8(b) >= a THEN {}
    ELSE {a}

color_dodge_divisor(a, b) ==
    IF b = 0 THEN {}
    ELSE IF a = 0 THEN {}
    ELSE IF b >= Not8(a) THEN {}
    ELSE {Not8(a)}

\* vivid_light_divisor without the test of b against the doubled complement
vivid_light_divisor_unguarded(a, b) ==
    IF a < 128
    THEN IF b = 255 THEN {}
         ELSE IF Not8(b) >= a + a THEN {}
         ELSE {U8(a + a)}
    ELSE IF b = 0 THEN {}
         ELSE {U8((-a - 1) + (-a - 1))}

vivid_light_divisor(a, b) ==
    IF a < 128
    THEN IF b = 255 THEN {}
         ELSE IF Not8(b) >= a + a THEN {}
         ELSE {U8(a + a)}
    ELSE IF b = 0 THEN {}
         ELSE IF b >= U8((-a - 1) + (-a - 1)) THEN {}
         ELSE {U8((-a - 1) + (-a - 1))}

divide_divisor(a, b) ==
    IF b = 0 THEN {}
    ELSE IF a = 255 THEN {}
    ELSE IF b >= a THEN {}
    ELSE {a}

\* lum - n, or x - lum, as computed before it is stored in the 8-bit
\* divisor; no value where clip_color does not get that far
clip_color_difference(pcolor) ==
    LET lum == get_lum(pcolor)
        n   == min(pcolor)
        x   == max(pcolor)
    IN  IF n < 0
        THEN IF lum = 0 THEN {} ELSE {lum - n}
        ELSE IF x > 255
        THEN IF lum = 255 THEN {} ELSE {x - lum}
        ELSE {}

\* the 8-bit divisor of clip_color where a component is divided by it: a
\* component that, less lum, equals the divisor is stored without dividing
clip_color_divisor(pcolor) ==
    LET lum == get_lum(pcolor)
    IN  {U8(diff) : diff \in
            {df \in clip_color_difference(pcolor) :
                \E c \in {pcolor.r, pcolor.g, pcolor.b} : S16(c - lum) # U8(df)}}

set_sat_divisor(pcolor, new_sat) ==
    LET m        == set_mmm(pcolor)
        divisor  == U8(pcolor[m.pmax] - pcolor[m.pmin])
        dividend == U8(pcolor[m.pmid] - pcolor[m.pmin])
    IN  IF divisor = 0 \/ new_sat = 0 THEN {}
        ELSE IF dividend = divisor THEN {}
        ELSE {divisor}

\* the Color set_lum hands to clip_color
set_lum_shifted(pcolor, new_lum) ==
    LET d == S16(new_lum - get_lum(pcolor))
    IN  [pcolor EXCEPT !.r = S16(@ + d), !.g = S16(@ + d), !.b = S16(@ + d)]

\* the calls of set_sat and of set_lum that a pixel of the four HSL
\* functions makes, with their arguments
hsl_calls(fn, p1, p2, order) ==
    LET B == ColorOf(p1)
        A == ColorOf(p2)
    IN  IF fn = "hue"
        THEN [sat |-> <<A, get_sat(B)>>,
              lum |-> <<set_sat(A, get_sat(B)), get_lum(B)>>]
        ELSE IF fn = "saturation"
        THEN LET S == set_sat(B, get_sat(A))
             IN  [sat |-> <<B, get_sat(A)>>,
                  lum |-> <<S, IF order = "left_first" THEN get_lum(S) ELSE get_lum(B)>>]
        ELSE IF fn = "color"
        THEN [sat |-> <<>>, lum |-> <<A, get_lum(B)>>]
        ELSE [sat |-> <<>>, lum |-> <<B, get_lum(A)>>]

\* X, the Color whose components the pixel loop casts to 8 bits
hsl_color(fn, p1, p2, order) ==
    LET c == hsl_calls(fn, p1, p2, order) IN set_lum(c.lum[1], c.lum[2])

\* every byte value for the two pixels, and the corners of the colour cube
CornerBytes == {0, 1, 128, 254, 255}

InitDivisions ==
    /\ pc = "pixels"
    /\ \/ \E a \in Byte, b \in Byte :
             /\ backdrop = <<b, b, 255 - b, 255>>
             /\ source = <<a, 255 - a, a, 128>>
       \/ \E br \in CornerBytes, bg \in CornerBytes, bb \in CornerBytes,
             ar \in CornerBytes, ag \in CornerBytes, ab \in CornerBytes :
             /\ backdrop = <<br, bg, bb, 255>>
             /\ source = <<ar, ag, ab, 255>>
    /\ res = NoCall
    /\ randState = <<>>
    /\ firstRes = NoCall
    /\ budget = 0
    /\ PbIdle
    /\ ZipIdle
    /\ LayerIdle

NextDivisions ==
    \/ ColorBurn
    \/ ColorDodge
    \/ VividLight
    \/ Divide
    \/ Hue
    \/ Saturation
    \/ Color
    \/ Luminosity

SpecDivisions == InitDivisions /\ [][NextDivisions]_vars

HslNames == {"hue", "saturation", "color", "luminosity"}

\* the divisor the channel function fn meets on channel values a (source)
\* and b (backdrop)
ChannelDivisor(fn, a, b) ==
    IF fn = "color_burn" THEN color_burn_divisor(a, b)
    ELSE IF fn = "color_dodge" THEN color_dodge_divisor(a, b)
    ELSE IF fn = "vivid_light" THEN vivid_light_divisor(a, b)
    ELSE divide_divisor(a, b)

\* the quotient the channel function stores when it divides by d
ChannelQuotient(fn, a, b, d) ==
    IF fn = "color_burn" \/ (fn = "vivid_light" /\ a < 128)
    THEN U8(-CDiv(Not8(b) * 256 - Not8(b) + Shr(d, 1), d) - 1)
    ELSE U8(CDiv(b * 256 - b + Shr(d, 1), d))

\* the 8-bit values set_sat and clip_color divide by in an HSL pixel
HslDivisors(fn, p1, p2, order) ==
    LET c == hsl_calls(fn, p1, p2, order)
    IN  clip_color_divisor(set_lum_shifted(c.lum[1], c.lum[2])) \cup
        (IF c.sat = <<>> THEN {} ELSE set_sat_divisor(c.sat[1], c.sat[2]))

(***************************************************************************)
(* C28: no blend function divides by zero.  On every path of color_burn,   *)
(* color_dodge, vivid_light and divide that reaches the division the       *)
(* divisor is not zero, and where clip_color or set_sat divides, the       *)
(* divisor is in 1..255.                                                   *)
(***************************************************************************)
C28_NoDivisionByZero ==
    pc = "blended" =>
        /\ res.status = "done"
        /\ res.fn \in {"color_burn", "color_dodge", "vivid_light", "divide"} =>
              \A k \in 1..3 :
                  \A d \in ChannelDivisor(res.fn, source[k], backdrop[k]) :
                      /\ d # 0
                      /\ d \in 1..255
                      /\ res.out[k] = ChannelQuotient(res.fn, source[k], backdrop[k], d)
        /\ res.fn \in HslNames =>
              /\ \A order \in ArgOrders :
                  /\ \A d \in HslDivisors(res.fn, Pix(backdrop, 0), Pix(source, 0), order) :
                         d \in 1..255
                  /\ hsl_color(res.fn, Pix(backdrop, 0), Pix(source, 0), order).ok
              /\ \E order \in ArgOrders :
                     \A k \in 1..3 :
                         LET X == hsl_color(res.fn, Pix(backdrop, 0), Pix(source, 0), order)
                         IN  res.out[k] = U8(<<X.r, X.g, X.b>>[k])

\* vivid_light has divided on both of its branches, in one call
C28_Witness ==
    /\ pc = "blended"
    /\ res.fn = "vivid_light"
    /\ res.status = "done"
    /\ source[1] < 128
    /\ vivid_light_divisor(source[1], backdrop[1]) = {source[1] + source[1]}
    /\ source[2] >= 128
    /\ \E d \in 1..255 : vivid_light_divisor(source[2], backdrop[2]) = {d}

\* clip_color has divided by lum - n in a hue call
C28_ClipDivides ==
    /\ pc = "blended"
    /\ res.fn = "hue"
    /\ LET c == hsl_calls("hue", Pix(backdrop, 0), Pix(source, 0), "left_first")
       IN  /\ min(set_lum_shifted(c.lum[1], c.lum[2])) < 0
           /\ \E d \in 1..255 : clip_color_divisor(set_lum_shifted(c.lum[1], c.lum[2])) = {d}
           /\ \E d \in 1..255 : set_sat_divisor(c.sat[1], c.sat[2]) = {d}

(***************************************************************************)
(* C29: the components hue, saturation, color and luminosity hand to the   *)
(* 8-bit cast are in 0..255, so the cast changes no value; and the value   *)
(* lum - n, or x - lum, that clip_color stores in its 8-bit divisor is in  *)
(* 1..255.                                                                 *)
(***************************************************************************)
C29_ComponentsInRange ==
    (pc = "blended" /\ res.fn \in HslNames) =>
        /\ \A order \in ArgOrders :
              LET c    == hsl_calls(res.fn, Pix(backdrop, 0), Pix(source, 0), order)
                  X    == hsl_color(res.fn, Pix(backdrop, 0), Pix(source, 0), order)
                  diff == clip_color_difference(set_lum_shifted(c.lum[1], c.lum[2]))
              IN  /\ X.r \in 0..255 /\ X.g \in 0..255 /\ X.b \in 0..255
                  /\ \A df \in diff : df \in 1..255
        /\ \E order \in ArgOrders :
              LET X == hsl_color(res.fn, Pix(backdrop, 0), Pix(source, 0), order)
              IN  /\ res.status = "done"
                  /\ res.out = <<X.r, X.g, X.b, source[4]>>

\* a luminosity call in which set_lum pushed a component above 255 and
\* clip_color brought the colour back by dividing by x - lum
C29_Witness ==
    /\ pc = "blended"
    /\ res.fn = "luminosity"
    /\ res.status = "done"
    /\ LET c == hsl_calls("luminosity", Pix(backdrop, 0), Pix(source, 0), "left_first")
           S == set_lum_shifted(c.lum[1], c.lum[2])
       IN  /\ min(S) >= 0
           /\ max(S) > 255
           /\ \E df \in 1..255 : clip_color_difference(S) = {df}
           /\ \E d \in 1..255 : clip_color_divisor(S) = {d}
           /\ res.out[1] \in 0..255

\* a color call in which set_lum pushed a component below 0
C29_ClipsBelow ==
    /\ pc = "blended"
    /\ res.fn = "color"
    /\ LET c == hsl_calls("color", Pix(backdrop, 0), Pix(source, 0), "left_first")
           S == set_lum_shifted(c.lum[1], c.lum[2])
       IN  min(S) < 0 /\ \E df \in 1..255 : clip_color_difference(S) = {df}

\* the channel value of overlay, hard_light or exclusion computed on
\* integers without a width, before anything is cut to 8 bits
UnboundedChannel(fn, a, b) ==
    LET x == MulShr(a * b + 64, 65793, 23)
    IN  IF fn = "exclusion" THEN a + b - x
        ELSE IF (fn = "overlay" /\ b < 128) \/ (fn = "hard_light" /\ a < 128) THEN x
        ELSE (a + a) + (b + b) - x - 255

(***************************************************************************)
(* C30: for all a and b in 0..255, the byte overlay, hard_light and        *)
(* exclusion store, with ((a*b + 64) * 0x10101) >> 23 evaluated in 32-bit  *)
(* two's-complement arithmetic with an arithmetic right shift and the      *)
(* channel result cut to 8 bits, is the byte the same expressions give on  *)
(* unbounded integers.                                                     *)
(***************************************************************************)
C30_WrapKeepsByte ==
    (pc = "blended" /\ res.fn \in {"overlay", "hard_light", "exclusion"}) =>
        \A k \in 1..3 :
            /\ UnboundedChannel(res.fn, source[k], backdrop[k]) \in 0..255
            /\ res.out[k] = UnboundedChannel(res.fn, source[k], backdrop[k])

\* hard_light on a pair whose product wraps to a negative 32-bit value, on
\* the branch that subtracts x
C30_Witness ==
    /\ pc = "blended"
    /\ res.fn = "hard_light"
    /\ \E k \in 1..3 :
          /\ source[k] >= 128
          /\ source[k] * backdrop[k] + 64 >= 32640
          /\ mul_0x10101_shr23(source[k] * backdrop[k] + 64) < 0
          /\ res.out[k] = UnboundedChannel("hard_light", source[k], backdrop[k])

====
